---- MODULE Spec2Model ----
(***************************************************************************)
(* A state-machine model of the drone controller (unified_drone.py, with   *)
(* final.py and pi_client.py as earlier iterations of the same loops) and  *)
(* of the RealityScan job server (windows_server_api.py).                  *)
(*                                                                         *)
(* The controller: one capture thread fans every camera frame out to       *)
(* frame_queue (QR detection) and windows_queue (uplink);                  *)
(* NUM_DETECTION_THREADS workers decode frames and put results on          *)
(* result_queue; the main loop (the "gate") counts consecutive valid QR    *)
(* texts and, at QR_CONFIRM_FRAMES, triggers the servo and sends RTL.      *)
(* Flask serves /video_feed from current_frame under frame_lock.           *)
(*                                                                         *)
(* A camera frame is represented by its sequence number and by what the    *)
(* decoder makes of the picture: a sequence of texts, or Undecodable when  *)
(* pyzbar (or the utf-8 decoding of a symbol) raises.  A text is a         *)
(* sequence of one-character strings, so that str.strip() is computed.     *)
(*                                                                         *)
(* The job server: start_processing records a job and starts a thread      *)
(* running run_realityscan, which supervises one RealityScan subprocess    *)
(* and moves the job record through its statuses.  The subprocess, the     *)
(* file system and the clients are the environment.                        *)
(***************************************************************************)
EXTENDS Integers, Sequences, FiniteSets, TLC

\* ---------------------------------------------------------------- config

QR_CONFIRM_FRAMES == 2
FRAME_QUEUE_SIZE == 10
WINDOWS_QUEUE_SIZE == 5
NUM_DETECTION_THREADS == 2
\* duty cycles in tenths of a percent (2.5 and 7.5 in the source)
SERVO_NEUTRAL == 25
SERVO_TRIGGER == 75

VALID_QR_TEXT == <<"S", "C", "A", "N", "N", "E", "D">>

\* ---------------------------------------------------------------- bounds

\* frames the camera delivers in the detection-pipeline specification
MaxFrames == 3
\* clients of /video_feed
MaxClients == 2
\* jobs the server accepts
MaxJobs == 2
\* results waiting on result_queue when the gate specification starts
MaxResults == 3
\* decoded texts in those results, all together
MaxTexts == 3

\* ---------------------------------------------------------------- texts

Whitespace == {" ", "\n", "\t"}

RECURSIVE LStrip(_)
LStrip(s) ==
    IF s # <<>> /\ Head(s) \in Whitespace THEN LStrip(Tail(s)) ELSE s

RECURSIVE RStrip(_)
RStrip(s) ==
    IF s # <<>> /\ s[Len(s)] \in Whitespace
    THEN RStrip(SubSeq(s, 1, Len(s) - 1)) ELSE s

\* str.strip()
Strip(s) == RStrip(LStrip(s))

\* data.strip() == VALID_QR_TEXT
IsValidQR(data) == Strip(data) = VALID_QR_TEXT

WrongText == <<"W", "R", "O", "N", "G">>
PaddedText == <<" ">> \o VALID_QR_TEXT \o <<"\n">>
SplitText == <<"S", "C", "A", "N", " ", "N", "E", "D">>

\* the texts a QR code in view may carry
Texts == {VALID_QR_TEXT, PaddedText, WrongText, SplitText}

\* a picture on which decode (or the utf-8 decoding of a symbol) raises
Undecodable == [raises |-> TRUE, texts |-> <<>>]
\* a picture on which decode returns the texts
Picture(texts) == [raises |-> FALSE, texts |-> texts]
\* current_frame = None
NoFrame == [id |-> 0, pic |-> Picture(<<>>)]
\* before the uplink has posted anything
NoPost == [id |-> 0, outcome |-> "none"]
\* last_qr_content = None
NoContent == <<"None">>

RECURSIVE SeqsUpTo(_, _)
SeqsUpTo(S, n) ==
    IF n = 0 THEN {<<>>}
    ELSE LET shorter == SeqsUpTo(S, n - 1)
         IN  shorter \cup {Append(s, x) : s \in {t \in shorter : Len(t) = n - 1}, x \in S}

\* the pictures of the detection-pipeline specification: no code in view,
\* the valid code, a wrong code, or a picture the decoder fails on
Pictures ==
    {Picture(<<>>), Picture(<<VALID_QR_TEXT>>), Picture(<<WrongText>>), Undecodable}

Workers == 1..NUM_DETECTION_THREADS

\* /video_feed clients
Clients == 1..MaxClients

VARIABLES
    \* shared state of unified_drone.py
    frame_queue, result_queue, windows_queue,
    qr_count, should_stop, detection_complete,
    current_frame, frame_lock, last_qr_content,
    \* capture_frames
    capture_pc, frame_id, frame,
    \* detect_qr_codes, one per worker
    detect_pc, detect_frame,
    \* main
    main_pc, decoded_objects, for_idx,
    \* servo and flight link
    servo_duty, servo_calls, rtl_calls,
    \* send_to_windows_server
    uplink_pc, uplink_frame, frames_sent_to_windows, windows_send_errors,
    \* the frame number and the outcome of the uplink's latest post
    last_post,
    \* video_feed: the generator of each connected client
    preview_pc,
    \* windows_server_api: the jobs table, the position of each job's
    \* run_realityscan thread, its subprocess, the files under UPLOAD_DIR,
    \* PROJECTS_DIR and RESULTS_DIR of each project, and the last response
    jobs, sup_pc, process, images_folder, batch_zip, project_file,
    data_folder, archives, response,
    \* get_status: the request being answered and what it has copied of the
    \* job record
    reader,
    \* history: pictures captured, frame ids taken by the workers, results
    \* put, texts evaluated by the gate
    captured, taken, results_put, evaluated

vars == <<frame_queue, result_queue, windows_queue, qr_count, should_stop,
          detection_complete, current_frame, frame_lock, last_qr_content,
          capture_pc, frame_id, frame, detect_pc, detect_frame,
          main_pc, decoded_objects, for_idx, servo_duty, servo_calls,
          rtl_calls, uplink_pc, uplink_frame, frames_sent_to_windows,
          windows_send_errors, last_post, preview_pc, jobs, sup_pc, process,
          images_folder, batch_zip, project_file, data_folder, archives,
          response, reader, captured, taken, results_put, evaluated>>

captureVars == <<capture_pc, frame_id, frame, captured>>
detectVars == <<detect_pc, detect_frame, taken>>
gateVars == <<qr_count, detection_complete, last_qr_content, main_pc,
              decoded_objects, for_idx, evaluated>>
actionVars == <<servo_duty, servo_calls, rtl_calls>>
previewVars == <<preview_pc>>
serverVars == <<jobs, sup_pc, process, images_folder, batch_zip, project_file,
                data_folder, archives, response, reader>>

JobIds == 1..MaxJobs
\* the project ids the clients use
Projects == {"mission_01"}
\* an absent or empty form field
NoProjectId == ""
\* result_path: None
NoPath == <<>>
NoResponse == [endpoint |-> "none", code |-> 0, job_id |-> 0, error |-> ""]
NoReader == [pc |-> "idle", job_id |-> 0, status |-> "", progress |-> 0]
NoArchive == [state |-> "none", job_id |-> 0, project_id |-> NoProjectId]

\* the server after create_directories(): no job, no upload, no project
InitServer ==
    /\ jobs = <<>>
    /\ sup_pc = [j \in JobIds |-> "none"]
    /\ process = [j \in JobIds |-> [state |-> "none", returncode |-> 0, stderr |-> FALSE]]
    /\ images_folder = [p \in Projects |-> "missing"]
    /\ batch_zip = [p \in Projects |-> FALSE]
    /\ project_file = [p \in Projects |-> "missing"]
    /\ data_folder = [p \in Projects |-> "missing"]
    /\ archives = [p \in Projects |-> NoArchive]
    /\ response = NoResponse
    /\ reader = NoReader
uplinkVars == <<uplink_pc, uplink_frame, frames_sent_to_windows, windows_send_errors,
               last_post>>

\* the controller when its threads start
InitController ==
    /\ frame_queue = <<>>
    /\ result_queue = <<>>
    /\ windows_queue = <<>>
    /\ qr_count = 0
    /\ should_stop = FALSE
    /\ detection_complete = FALSE
    /\ current_frame = NoFrame
    /\ frame_lock = "free"
    /\ last_qr_content = NoContent
    /\ capture_pc = "read"
    /\ frame_id = 0
    /\ frame = NoFrame
    /\ detect_pc = [w \in Workers |-> "get"]
    /\ detect_frame = [w \in Workers |-> NoFrame]
    /\ main_pc = "get"
    /\ decoded_objects = <<>>
    /\ for_idx = 0
    /\ servo_duty = 0
    /\ servo_calls = 0
    /\ rtl_calls = 0
    /\ uplink_pc = "get"
    /\ uplink_frame = NoFrame
    /\ frames_sent_to_windows = 0
    /\ windows_send_errors = 0
    /\ last_post = NoPost
    /\ preview_pc = [c \in Clients |-> "idle"]
    /\ captured = <<>>
    /\ taken = {}
    /\ results_put = <<>>
    /\ evaluated = <<>>

Init == InitController /\ InitServer

\* ------------------------------------------------------- capture_frames

\* (mutant) the frame number is not advanced before it is attached to the
\* frame: two frames read in a row carry the same number
CaptureRead_StaleId(limit, pictures) ==
    /\ capture_pc = "read"
    /\ ~should_stop
    /\ frame_id < limit
    /\ \E pic \in pictures :
        /\ frame' = [id |-> IF frame_id > 1 THEN frame_id ELSE 1, pic |-> pic]
        /\ captured' = Append(captured, pic)
    /\ frame_id' = frame_id + 1
    /\ capture_pc' = "lock"
    /\ UNCHANGED <<serverVars, previewVars, uplinkVars, frame_queue, result_queue, windows_queue, should_stop,
                   current_frame, frame_lock, detectVars, gateVars, actionVars,
                   results_put>>

\* while not should_stop: ret, frame = cap.read(); frame_id += 1.
\* A read with ret False re-enters the loop head and changes nothing.
CaptureRead(limit, pictures) ==
    /\ capture_pc = "read"
    /\ ~should_stop
    /\ frame_id < limit
    /\ \E pic \in pictures :
        /\ frame' = [id |-> frame_id + 1, pic |-> pic]
        /\ captured' = Append(captured, pic)
    /\ frame_id' = frame_id + 1
    /\ capture_pc' = "lock"
    /\ UNCHANGED <<serverVars, previewVars, uplinkVars, frame_queue, result_queue, windows_queue, should_stop,
                   current_frame, frame_lock, detectVars, gateVars, actionVars,
                   results_put>>

\* the loop test fails
CaptureExit ==
    /\ capture_pc = "read"
    /\ should_stop
    /\ capture_pc' = "done"
    /\ UNCHANGED <<serverVars, previewVars, uplinkVars, frame_queue, result_queue, windows_queue, should_stop,
                   current_frame, frame_lock, frame_id, frame, captured,
                   detectVars, gateVars, actionVars, results_put>>

\* with frame_lock: current_frame = frame.copy()
CaptureUpdateShared ==
    /\ capture_pc = "lock"
    /\ frame_lock = "free"
    /\ current_frame' = frame
    /\ capture_pc' = "put_frame"
    /\ UNCHANGED <<serverVars, previewVars, uplinkVars, frame_queue, result_queue, windows_queue, should_stop,
                   frame_lock, frame_id, frame, captured,
                   detectVars, gateVars, actionVars, results_put>>

\* Queue.put(item, timeout=0.1) inside try/except-pass: the item is appended
\* when a slot is free, and after the timeout the Full exception is swallowed.
PutWithTimeout(queue, maxsize, item) ==
    IF Len(queue) < maxsize THEN Append(queue, item) ELSE queue

\* (mutant) put without a timeout: the call returns once a slot is free
CapturePutFrame_Blocking ==
    /\ capture_pc = "put_frame"
    /\ Len(frame_queue) < FRAME_QUEUE_SIZE
    /\ frame_queue' = Append(frame_queue, frame)
    /\ capture_pc' = "put_windows"
    /\ UNCHANGED <<serverVars, previewVars, uplinkVars, result_queue, windows_queue, should_stop,
                   current_frame, frame_lock, frame_id, frame, captured,
                   detectVars, gateVars, actionVars, results_put>>

\* (mutant) a frame dropped for frame_queue is dropped altogether
CapturePutFrame_SkipOnFull ==
    /\ capture_pc = "put_frame"
    /\ frame_queue' = PutWithTimeout(frame_queue, FRAME_QUEUE_SIZE, frame)
    /\ capture_pc' = IF Len(frame_queue) < FRAME_QUEUE_SIZE THEN "put_windows" ELSE "read"
    /\ UNCHANGED <<serverVars, previewVars, uplinkVars, result_queue, windows_queue, should_stop,
                   current_frame, frame_lock, frame_id, frame, captured,
                   detectVars, gateVars, actionVars, results_put>>

CapturePutFrame ==
    /\ capture_pc = "put_frame"
    /\ frame_queue' = PutWithTimeout(frame_queue, FRAME_QUEUE_SIZE, frame)
    /\ capture_pc' = "put_windows"
    /\ UNCHANGED <<serverVars, previewVars, uplinkVars, result_queue, windows_queue, should_stop,
                   current_frame, frame_lock, frame_id, frame, captured,
                   detectVars, gateVars, actionVars, results_put>>

\* if SEND_TO_WINDOWS: the same for windows_queue
CapturePutWindows ==
    /\ capture_pc = "put_windows"
    /\ windows_queue' = PutWithTimeout(windows_queue, WINDOWS_QUEUE_SIZE, frame)
    /\ capture_pc' = "read"
    /\ UNCHANGED <<serverVars, previewVars, uplinkVars, frame_queue, result_queue, should_stop,
                   current_frame, frame_lock, frame_id, frame, captured,
                   detectVars, gateVars, actionVars, results_put>>

\* ------------------------------------------------------ detect_qr_codes

\* frame_id, frame = frame_queue.get(timeout=1); an empty queue times out
\* and the loop continues, which changes nothing.
DetectGet(w) ==
    /\ detect_pc[w] = "get"
    /\ ~should_stop
    /\ frame_queue # <<>>
    /\ detect_frame' = [detect_frame EXCEPT ![w] = Head(frame_queue)]
    /\ frame_queue' = Tail(frame_queue)
    /\ detect_pc' = [detect_pc EXCEPT ![w] = "decode"]
    /\ taken' = taken \cup {Head(frame_queue).id}
    /\ UNCHANGED <<serverVars, previewVars, uplinkVars, result_queue, windows_queue, should_stop, current_frame,
                   frame_lock, captureVars, gateVars, actionVars, results_put>>

DetectExit(w) ==
    /\ detect_pc[w] = "get"
    /\ should_stop
    /\ detect_pc' = [detect_pc EXCEPT ![w] = "done"]
    /\ UNCHANGED <<serverVars, previewVars, uplinkVars, frame_queue, result_queue, windows_queue, should_stop,
                   current_frame, frame_lock, detect_frame, taken,
                   captureVars, gateVars, actionVars, results_put>>

\* decode(frame) and the text extraction return; the result is put
DetectPublish(w) ==
    /\ detect_pc[w] = "decode"
    /\ ~detect_frame[w].pic.raises
    /\ LET result == [frame_id |-> detect_frame[w].id,
                      decoded_objects |-> detect_frame[w].pic.texts]
       IN  /\ result_queue' = Append(result_queue, result)
           /\ results_put' = Append(results_put, result)
    /\ detect_frame' = [detect_frame EXCEPT ![w] = NoFrame]
    /\ detect_pc' = [detect_pc EXCEPT ![w] = "get"]
    /\ UNCHANGED <<serverVars, previewVars, uplinkVars, frame_queue, windows_queue, should_stop, current_frame,
                   frame_lock, taken, captureVars, gateVars, actionVars>>

\* decode(frame) raises: nothing in detect_qr_codes catches it, the
\* exception leaves the function and the thread ends.
DetectRaise(w) ==
    /\ detect_pc[w] = "decode"
    /\ detect_frame[w].pic.raises
    /\ detect_frame' = [detect_frame EXCEPT ![w] = NoFrame]
    /\ detect_pc' = [detect_pc EXCEPT ![w] = "dead"]
    /\ UNCHANGED <<serverVars, previewVars, uplinkVars, frame_queue, result_queue, windows_queue, should_stop,
                   current_frame, frame_lock, taken, captureVars, gateVars,
                   actionVars, results_put>>

\* ------------------------------------------------------------- main loop

\* (mutant) a wrong text leaves the counter as it is
CountAfter_NoReset(count, data) == IF IsValidQR(data) THEN count + 1 ELSE count

\* the counter after one decoded text: += 1 on a match, = 0 otherwise
CountAfter(count, data) == IF IsValidQR(data) THEN count + 1 ELSE 0

\* (mutant) the comparison is strict
Confirmed_Strict(count) == count > QR_CONFIRM_FRAMES

\* if qr_count >= QR_CONFIRM_FRAMES
Confirmed(count) == count >= QR_CONFIRM_FRAMES

\* (mutant) a result without texts resets the counter, as a wrong text does
MainGet_ResetOnEmpty ==
    /\ main_pc = "get"
    /\ result_queue # <<>>
    /\ decoded_objects' = Head(result_queue).decoded_objects
    /\ result_queue' = Tail(result_queue)
    /\ for_idx' = 1
    /\ main_pc' = IF Head(result_queue).decoded_objects # <<>> THEN "for" ELSE "post"
    /\ qr_count' = IF Head(result_queue).decoded_objects # <<>> THEN qr_count ELSE 0
    /\ UNCHANGED <<serverVars, previewVars, uplinkVars, frame_queue, windows_queue, should_stop,
                   detection_complete, current_frame, frame_lock,
                   last_qr_content, evaluated, captureVars, detectVars,
                   actionVars, results_put>>

\* result = result_queue.get(timeout=1); decoded_objects = result[...].
\* On an empty queue get raises Empty, "except: continue" re-enters the
\* loop and nothing changes.  "if decoded_objects:" skips the for loop on
\* an empty list.
MainGet ==
    /\ main_pc = "get"
    /\ result_queue # <<>>
    /\ decoded_objects' = Head(result_queue).decoded_objects
    /\ result_queue' = Tail(result_queue)
    /\ for_idx' = 1
    /\ main_pc' = IF Head(result_queue).decoded_objects # <<>> THEN "for" ELSE "post"
    /\ UNCHANGED <<serverVars, previewVars, uplinkVars, frame_queue, windows_queue, qr_count, should_stop,
                   detection_complete, current_frame, frame_lock,
                   last_qr_content, evaluated, captureVars, detectVars,
                   actionVars, results_put>>

\* (mutant) no break after the action sequence: the for loop goes on with
\* the texts that follow the confirming one
MainEvaluate_NoBreak ==
    /\ main_pc = "for"
    /\ LET data == decoded_objects[for_idx]
           count == CountAfter(qr_count, data)
           fire == IsValidQR(data) /\ Confirmed(count)
       IN  /\ last_qr_content' = data
           /\ evaluated' = Append(evaluated, data)
           /\ qr_count' = count
           /\ detection_complete' = (detection_complete \/ fire)
           /\ should_stop' = (should_stop \/ fire)
           /\ for_idx' = for_idx + 1
           /\ main_pc' = IF for_idx < Len(decoded_objects) THEN "for"
                         ELSE IF fire THEN "servo"
                         ELSE "post"
    /\ UNCHANGED <<serverVars, previewVars, uplinkVars, frame_queue, result_queue, windows_queue, current_frame,
                   frame_lock, decoded_objects, captureVars, detectVars,
                   actionVars, results_put>>

\* one pass of "for data in decoded_objects", up to the call of trigger_servo
MainEvaluate ==
    /\ main_pc = "for"
    /\ LET data == decoded_objects[for_idx]
           count == CountAfter(qr_count, data)
           fire == IsValidQR(data) /\ Confirmed(count)
       IN  /\ last_qr_content' = data
           /\ evaluated' = Append(evaluated, data)
           /\ qr_count' = count
           /\ detection_complete' = (detection_complete \/ fire)
           /\ should_stop' = (should_stop \/ fire)
           /\ for_idx' = for_idx + 1
           /\ main_pc' = IF fire THEN "servo"
                         ELSE IF for_idx < Len(decoded_objects) THEN "for"
                         ELSE "post"
    /\ UNCHANGED <<serverVars, previewVars, uplinkVars, frame_queue, result_queue, windows_queue, current_frame,
                   frame_lock, decoded_objects, captureVars, detectVars,
                   actionVars, results_put>>

\* trigger_servo(): ChangeDutyCycle(SERVO_TRIGGER); sleep
TriggerServoStart ==
    /\ main_pc = "servo"
    /\ servo_calls' = servo_calls + 1
    /\ servo_duty' = SERVO_TRIGGER
    /\ main_pc' = "servo_neutral"
    /\ UNCHANGED <<serverVars, previewVars, uplinkVars, frame_queue, result_queue, windows_queue, qr_count,
                   should_stop, detection_complete, current_frame, frame_lock,
                   last_qr_content, decoded_objects, for_idx, evaluated,
                   rtl_calls, captureVars, detectVars, results_put>>

\* (mutant) trigger_servo returns with the servo still driven
TriggerServoNeutral_NoRelease ==
    /\ main_pc = "servo_neutral"
    /\ servo_duty' = SERVO_NEUTRAL
    /\ main_pc' = "rtl"
    /\ UNCHANGED <<serverVars, previewVars, uplinkVars, frame_queue, result_queue, windows_queue, qr_count,
                   should_stop, detection_complete, current_frame, frame_lock,
                   last_qr_content, decoded_objects, for_idx, evaluated,
                   servo_calls, rtl_calls, captureVars, detectVars, results_put>>

\* ChangeDutyCycle(SERVO_NEUTRAL); sleep
TriggerServoNeutral ==
    /\ main_pc = "servo_neutral"
    /\ servo_duty' = SERVO_NEUTRAL
    /\ main_pc' = "servo_release"
    /\ UNCHANGED <<serverVars, previewVars, uplinkVars, frame_queue, result_queue, windows_queue, qr_count,
                   should_stop, detection_complete, current_frame, frame_lock,
                   last_qr_content, decoded_objects, for_idx, evaluated,
                   servo_calls, rtl_calls, captureVars, detectVars, results_put>>

\* ChangeDutyCycle(0); trigger_servo returns
TriggerServoRelease ==
    /\ main_pc = "servo_release"
    /\ servo_duty' = 0
    /\ main_pc' = "rtl"
    /\ UNCHANGED <<serverVars, previewVars, uplinkVars, frame_queue, result_queue, windows_queue, qr_count,
                   should_stop, detection_complete, current_frame, frame_lock,
                   last_qr_content, decoded_objects, for_idx, evaluated,
                   servo_calls, rtl_calls, captureVars, detectVars, results_put>>

\* where the loop goes when a call inside "try:" raises: "except: continue"
ExceptContinue == "get"

\* trigger_servo() raises (the log file cannot be written, the PWM driver
\* fails): the bare "except: continue" of the loop swallows it.
TriggerServoRaise ==
    /\ main_pc \in {"servo", "servo_neutral", "servo_release"}
    /\ servo_calls' = IF main_pc = "servo" THEN servo_calls + 1 ELSE servo_calls
    /\ main_pc' = ExceptContinue
    /\ UNCHANGED <<serverVars, previewVars, uplinkVars, frame_queue, result_queue, windows_queue, qr_count,
                   should_stop, detection_complete, current_frame, frame_lock,
                   last_qr_content, decoded_objects, for_idx, evaluated,
                   servo_duty, rtl_calls, captureVars, detectVars, results_put>>

\* send_rtl(): command_long_send, then one of the two log lines; "break"
SendRtl ==
    /\ main_pc = "rtl"
    /\ rtl_calls' = rtl_calls + 1
    /\ main_pc' = "post"
    /\ UNCHANGED <<serverVars, previewVars, uplinkVars, frame_queue, result_queue, windows_queue, qr_count,
                   should_stop, detection_complete, current_frame, frame_lock,
                   last_qr_content, decoded_objects, for_idx, evaluated,
                   servo_duty, servo_calls, captureVars, detectVars, results_put>>

\* send_rtl() raises (the serial link is gone)
SendRtlRaise ==
    /\ main_pc = "rtl"
    /\ rtl_calls' = rtl_calls + 1
    /\ main_pc' = ExceptContinue
    /\ UNCHANGED <<serverVars, previewVars, uplinkVars, frame_queue, result_queue, windows_queue, qr_count,
                   should_stop, detection_complete, current_frame, frame_lock,
                   last_qr_content, decoded_objects, for_idx, evaluated,
                   servo_duty, servo_calls, captureVars, detectVars, results_put>>

\* HEADLESS_MODE skips the display; "if detection_complete: break"
MainPost ==
    /\ main_pc = "post"
    /\ main_pc' = IF detection_complete THEN "cleanup" ELSE "get"
    /\ UNCHANGED <<serverVars, previewVars, uplinkVars, frame_queue, result_queue, windows_queue, qr_count,
                   should_stop, detection_complete, current_frame, frame_lock,
                   last_qr_content, decoded_objects, for_idx, evaluated,
                   captureVars, detectVars, actionVars, results_put>>

LoopPcs == {"get", "for", "servo", "servo_neutral", "servo_release", "rtl", "post"}

\* except KeyboardInterrupt: should_stop = True; break
KeyboardInterrupt ==
    /\ main_pc \in LoopPcs
    /\ should_stop' = TRUE
    /\ main_pc' = "cleanup"
    /\ UNCHANGED <<serverVars, previewVars, uplinkVars, frame_queue, result_queue, windows_queue, qr_count,
                   detection_complete, current_frame, frame_lock,
                   last_qr_content, decoded_objects, for_idx, evaluated,
                   captureVars, detectVars, actionVars, results_put>>

\* cap.release(); servo.stop(); GPIO.cleanup(); main returns and the daemon
\* threads end with the process
Cleanup ==
    /\ main_pc = "cleanup"
    /\ servo_duty' = 0
    /\ main_pc' = "done"
    /\ UNCHANGED <<serverVars, previewVars, uplinkVars, frame_queue, result_queue, windows_queue, qr_count,
                   should_stop, detection_complete, current_frame, frame_lock,
                   last_qr_content, decoded_objects, for_idx, evaluated,
                   servo_calls, rtl_calls, captureVars, detectVars, results_put>>

\* ----------------------------------------------- send_to_windows_server

\* frame_id, frame = windows_queue.get(timeout=1); an empty queue times out
\* into "except: continue", which changes nothing.
UplinkGet ==
    /\ uplink_pc = "get"
    /\ ~should_stop
    /\ windows_queue # <<>>
    /\ uplink_frame' = Head(windows_queue)
    /\ windows_queue' = Tail(windows_queue)
    /\ uplink_pc' = "post"
    /\ UNCHANGED <<serverVars, previewVars, frame_queue, result_queue, qr_count, should_stop,
                   detection_complete, current_frame, frame_lock,
                   last_qr_content, main_pc, decoded_objects, for_idx,
                   evaluated, frames_sent_to_windows, windows_send_errors,
                   last_post, captureVars, detectVars, actionVars, results_put>>

UplinkExit ==
    /\ uplink_pc = "get"
    /\ should_stop
    /\ uplink_pc' = "done"
    /\ UNCHANGED <<serverVars, previewVars, frame_queue, result_queue, windows_queue, qr_count,
                   should_stop, detection_complete, current_frame, frame_lock,
                   last_qr_content, main_pc, decoded_objects, for_idx,
                   evaluated, uplink_frame, frames_sent_to_windows,
                   windows_send_errors, last_post, captureVars, detectVars,
                   actionVars, results_put>>

\* how one pass of the loop body ends: session.post(url, ..., timeout=2)
\* answers 200 or another status, or raises a RequestException; anything
\* else raised in the body (cv2.imencode, an exception of another class)
\* reaches the outer bare except
PostOutcomes == {"200", "other_status", "RequestException", "Exception"}

\* the two counters after one post
CountersAfterPost(sent, errors, outcome) ==
    CASE outcome = "200" -> <<sent + 1, errors>>
      [] outcome \in {"other_status", "RequestException"} -> <<sent, errors + 1>>
      [] OTHER -> <<sent, errors>>

\* a failed post that is counted and then tried again for the same frame
UplinkPost_Retry(outcomes) ==
    /\ uplink_pc = "post"
    /\ \E outcome \in outcomes :
        LET after == CountersAfterPost(frames_sent_to_windows, windows_send_errors, outcome)
        IN  /\ frames_sent_to_windows' = after[1]
            /\ windows_send_errors' = after[2]
            /\ last_post' = [id |-> uplink_frame.id, outcome |-> outcome]
            /\ IF outcome = "200"
               THEN uplink_frame' = NoFrame /\ uplink_pc' = "get"
               ELSE UNCHANGED <<uplink_frame, uplink_pc>>
    /\ UNCHANGED <<serverVars, previewVars, frame_queue, result_queue, windows_queue, qr_count,
                   should_stop, detection_complete, current_frame, frame_lock,
                   last_qr_content, main_pc, decoded_objects, for_idx,
                   evaluated, captureVars, detectVars, actionVars, results_put>>

\* imencode, session.post, the counter, windows_queue.task_done()
UplinkPost(outcomes) ==
    /\ uplink_pc = "post"
    /\ \E outcome \in outcomes :
        LET after == CountersAfterPost(frames_sent_to_windows, windows_send_errors, outcome)
        IN  /\ frames_sent_to_windows' = after[1]
            /\ windows_send_errors' = after[2]
            /\ last_post' = [id |-> uplink_frame.id, outcome |-> outcome]
    /\ uplink_frame' = NoFrame
    /\ uplink_pc' = "get"
    /\ UNCHANGED <<serverVars, previewVars, frame_queue, result_queue, windows_queue, qr_count,
                   should_stop, detection_complete, current_frame, frame_lock,
                   last_qr_content, main_pc, decoded_objects, for_idx,
                   evaluated, captureVars, detectVars, actionVars, results_put>>

Uplink == UplinkGet \/ UplinkExit \/ UplinkPost(PostOutcomes)

\* ----------------------------------------------------------- video_feed

droneVars == <<frame_queue, result_queue, windows_queue, qr_count, should_stop,
               detection_complete, last_qr_content, main_pc, decoded_objects,
               for_idx, evaluated, captureVars, detectVars, actionVars,
               uplinkVars, results_put>>

\* GET /video_feed: the server starts to iterate generate()
PreviewConnect(c) ==
    /\ preview_pc[c] = "idle"
    /\ preview_pc' = [preview_pc EXCEPT ![c] = "loop"]
    /\ UNCHANGED <<serverVars, droneVars, current_frame, frame_lock>>

\* while not should_stop and not detection_complete: with frame_lock: if
\* current_frame is not None: imencode; yield.  The generator is suspended
\* at the yield, inside the with block.
PreviewIterate(c) ==
    /\ preview_pc[c] = "loop"
    /\ IF should_stop \/ detection_complete
       THEN /\ preview_pc' = [preview_pc EXCEPT ![c] = "closed"]
            /\ UNCHANGED frame_lock
       ELSE /\ frame_lock = "free"
            /\ IF current_frame # NoFrame
               THEN /\ frame_lock' = "video_feed"
                    /\ preview_pc' = [preview_pc EXCEPT ![c] = "yield"]
               ELSE /\ UNCHANGED frame_lock
                    /\ preview_pc' = [preview_pc EXCEPT ![c] = "loop"]
    /\ UNCHANGED <<serverVars, droneVars, current_frame>>

\* the client has read the part and the server asks for the next one: the
\* generator leaves the with block, sleeps and loops
PreviewResume(c) ==
    /\ preview_pc[c] = "yield"
    /\ frame_lock' = "free"
    /\ preview_pc' = [preview_pc EXCEPT ![c] = "loop"]
    /\ UNCHANGED <<serverVars, droneVars, current_frame>>

\* the client closes the connection: the server closes the generator and
\* GeneratorExit unwinds the with block
PreviewDisconnect(c) ==
    /\ preview_pc[c] = "yield"
    /\ frame_lock' = "free"
    /\ preview_pc' = [preview_pc EXCEPT ![c] = "closed"]
    /\ UNCHANGED <<serverVars, droneVars, current_frame>>

Preview ==
    \E c \in Clients :
        \/ PreviewConnect(c)
        \/ PreviewIterate(c)
        \/ PreviewResume(c)
        \/ PreviewDisconnect(c)

\* ------------------------------------------- the detection pipeline

Capture ==
    \/ CaptureRead(MaxFrames, Pictures)
    \/ CaptureExit
    \/ CaptureUpdateShared
    \/ CapturePutFrame
    \/ CapturePutWindows

Detect ==
    \E w \in Workers :
        \/ DetectGet(w)
        \/ DetectExit(w)
        \/ DetectPublish(w)
        \/ DetectRaise(w)

Main ==
    \/ MainGet
    \/ MainEvaluate
    \/ TriggerServoStart
    \/ TriggerServoNeutral
    \/ TriggerServoRelease
    \/ TriggerServoRaise
    \/ SendRtl
    \/ SendRtlRaise
    \/ MainPost
    \/ KeyboardInterrupt
    \/ Cleanup

\* The detection pipeline: capture, the workers and the main loop.  The
\* uplink thread touches windows_queue and its two counters only, which
\* nothing in the pipeline reads; it is left out here.
Next == (main_pc # "done" /\ (Capture \/ Detect)) \/ Main

Spec == Init /\ [][Next]_vars

\* ------------------------------------------------------ the gate alone

RECURSIVE Streams(_, _)
\* the sequences of at most r decoded-text lists holding at most t texts
Streams(r, t) ==
    IF r = 0 THEN {<<>>}
    ELSE {<<>>} \cup
         UNION {{<<first>> \o rest : rest \in Streams(r - 1, t - Len(first))} :
                first \in SeqsUpTo(Texts, t)}

RECURSIVE PutAll(_, _, _)
\* the queue after PutWithTimeout of every item, nothing being taken
PutAll(queue, maxsize, items) ==
    IF items = <<>> THEN queue
    ELSE PutAll(PutWithTimeout(queue, maxsize, Head(items)), maxsize, Tail(items))

\* The state in which the capture thread and the workers (started before
\* the main loop) have turned the first frames into results and the main
\* loop has not taken one yet: frame k shows the texts stream[k].
\* Afterwards the camera delivers nothing (cap.read gives ret False) and
\* the workers time out on the empty frame_queue.
InitGate ==
    \E stream \in Streams(MaxResults, MaxTexts) :
        LET n == Len(stream)
            frames == [k \in 1..n |-> [id |-> k, pic |-> Picture(stream[k])]]
            results == [k \in 1..n |-> [frame_id |-> k, decoded_objects |-> stream[k]]]
        IN  /\ frame_queue = <<>>
            /\ result_queue = results
            /\ windows_queue = PutAll(<<>>, WINDOWS_QUEUE_SIZE, frames)
            /\ qr_count = 0
            /\ should_stop = FALSE
            /\ detection_complete = FALSE
            /\ current_frame = IF n = 0 THEN NoFrame ELSE frames[n]
            /\ frame_lock = "free"
            /\ last_qr_content = NoContent
            /\ capture_pc = "read"
            /\ frame_id = n
            /\ frame = IF n = 0 THEN NoFrame ELSE frames[n]
            /\ detect_pc = [w \in Workers |-> "get"]
            /\ detect_frame = [w \in Workers |-> NoFrame]
            /\ main_pc = "get"
            /\ decoded_objects = <<>>
            /\ for_idx = 0
            /\ servo_duty = 0
            /\ servo_calls = 0
            /\ rtl_calls = 0
            /\ uplink_pc = "get"
            /\ uplink_frame = NoFrame
            /\ frames_sent_to_windows = 0
            /\ windows_send_errors = 0
            /\ last_post = NoPost
            /\ preview_pc = [c \in Clients |-> "idle"]
            /\ InitServer
            /\ captured = [k \in 1..n |-> frames[k].pic]
            /\ taken = 1..n
            /\ results_put = results
            /\ evaluated = <<>>

NextGate == Main

SpecGate == InitGate /\ [][NextGate]_vars

\* the statements of the main thread; Ctrl+C is not one of them
MainStep ==
    \/ MainGet
    \/ MainEvaluate
    \/ TriggerServoStart
    \/ TriggerServoNeutral
    \/ TriggerServoRelease
    \/ TriggerServoRaise
    \/ SendRtl
    \/ SendRtlRaise
    \/ MainPost
    \/ Cleanup

\* The main thread keeps running: a statement it can execute is executed.
\* Nothing is assumed about which way a call ends or about Ctrl+C.
SpecGateFair == SpecGate /\ WF_vars(MainStep)

\* --------------------------------------------------------- the frame bus

\* frames the camera delivers in the frame-bus specification after the
\* backlog of InitBus
MaxBusFrames == 2

\* a picture with no code in view
Blank == Picture(<<>>)

\* The state in which the capture thread has gone through FRAME_QUEUE_SIZE
\* whole iterations before any consumer thread took a frame (the threads
\* are started one after the other): frame_queue is full and windows_queue,
\* the smaller one, has dropped the frames it had no room for.
InitBus ==
    LET n == FRAME_QUEUE_SIZE
        frames == [k \in 1..n |-> [id |-> k, pic |-> Blank]]
    IN  /\ frame_queue = PutAll(<<>>, FRAME_QUEUE_SIZE, frames)
        /\ result_queue = <<>>
        /\ windows_queue = PutAll(<<>>, WINDOWS_QUEUE_SIZE, frames)
        /\ qr_count = 0
        /\ should_stop = FALSE
        /\ detection_complete = FALSE
        /\ current_frame = frames[n]
        /\ frame_lock = "free"
        /\ last_qr_content = NoContent
        /\ capture_pc = "read"
        /\ frame_id = n
        /\ frame = frames[n]
        /\ detect_pc = [w \in Workers |-> "get"]
        /\ detect_frame = [w \in Workers |-> NoFrame]
        /\ main_pc = "get"
        /\ decoded_objects = <<>>
        /\ for_idx = 0
        /\ servo_duty = 0
        /\ servo_calls = 0
        /\ rtl_calls = 0
        /\ uplink_pc = "get"
        /\ uplink_frame = NoFrame
        /\ frames_sent_to_windows = 0
        /\ windows_send_errors = 0
        /\ last_post = NoPost
        /\ preview_pc = [c \in Clients |-> "idle"]
        /\ InitServer
        /\ captured = [k \in 1..n |-> Blank]
        /\ taken = {}
        /\ results_put = <<>>
        /\ evaluated = <<>>

\* Which worker takes a frame makes no difference to the queues: one
\* worker is scheduled here, the others wait.
BusWorkers == {1}

\* The capture loop with its consumers, for as long as no code is in view:
\* every picture decodes to no text and the main loop has nothing to count.
\* the posts of the bus specification succeed or fail on the network
BusPosts == {"200", "RequestException"}

NextBus ==
    \/ CaptureRead(FRAME_QUEUE_SIZE + MaxBusFrames, {Blank})
    \/ CaptureUpdateShared
    \/ CapturePutFrame
    \/ CapturePutWindows
    \/ \E w \in BusWorkers : DetectGet(w) \/ DetectPublish(w)
    \/ UplinkGet
    \/ UplinkPost(BusPosts)

SpecBus == InitBus /\ [][NextBus]_vars

\* the uplink alone behind a running capture thread, with every outcome of
\* a post
NextUplink ==
    \/ CaptureRead(FRAME_QUEUE_SIZE + MaxBusFrames, {Blank})
    \/ CaptureUpdateShared
    \/ CapturePutFrame
    \/ CapturePutWindows
    \/ UplinkGet
    \/ UplinkPost(PostOutcomes)

SpecUplink == InitBus /\ [][NextUplink]_vars

\* The capture thread is a running thread: a step of it that stays possible
\* is eventually taken.  Nothing is assumed of the consumers.
SpecBusFair ==
    /\ SpecBus
    /\ WF_vars(CaptureUpdateShared)
    /\ WF_vars(CapturePutFrame)
    /\ WF_vars(CapturePutWindows)

\* ------------------------------------------------- the preview stream

\* frames the camera delivers in the preview specification
MaxPreviewFrames == 2

\* The capture loop, the /video_feed generators and the end of the main
\* loop by Ctrl+C.
NextPreview ==
    \/ CaptureRead(MaxPreviewFrames, {Blank})
    \/ CaptureExit
    \/ CaptureUpdateShared
    \/ CapturePutFrame
    \/ CapturePutWindows
    \/ Preview
    \/ KeyboardInterrupt
    \/ Cleanup

SpecPreview == Init /\ [][NextPreview]_vars

\* the capture thread is scheduled whenever one of its statements can run;
\* nothing makes a browser read the part it was sent
CaptureStep ==
    \/ CaptureRead(MaxPreviewFrames, {Blank})
    \/ CaptureExit
    \/ CaptureUpdateShared
    \/ CapturePutFrame
    \/ CapturePutWindows

SpecPreviewFair == SpecPreview /\ WF_vars(CaptureStep)

\* ------------------------------------------------- windows_server_api

controllerVars == <<droneVars, current_frame, frame_lock, previewVars>>
handlerRest == <<reader, controllerVars>>

\* what an uploaded batch archive holds
Archives == {"images", "no_images", "corrupt"}
\* exit codes of RealityScan
ReturnCodes == {0, 1}
\* what RealityScan leaves at PROJECTS_DIR/<project_id>.rsproj and in the
\* data folder next to it
ProjectFiles == {"missing", "empty", "written"}
DataFolders == {"missing", "no_sfm", "sfm"}
\* str(e) of the exceptions run_realityscan can meet
ExceptionTexts == {"FileNotFoundError", "OSError"}

Terminal == {"completed", "failed", "error"}

\* POST /api/process/upload
UploadImages(project_id, archive) ==
    /\ IF project_id = NoProjectId
       THEN /\ response' = [endpoint |-> "upload", code |-> 400, job_id |-> 0,
                            error |-> "Missing project_id"]
            /\ UNCHANGED <<images_folder, batch_zip>>
       ELSE IF archive = "corrupt"
       THEN \* extract_zip raises: the handler answers 500 and os.remove
            \* is not reached
            /\ batch_zip' = [batch_zip EXCEPT ![project_id] = TRUE]
            /\ images_folder' = [images_folder EXCEPT ![project_id] =
                                    IF @ = "missing" THEN "empty" ELSE @]
            /\ response' = [endpoint |-> "upload", code |-> 500, job_id |-> 0,
                            error |-> "BadZipFile"]
       ELSE /\ batch_zip' = [batch_zip EXCEPT ![project_id] = FALSE]
            /\ images_folder' = [images_folder EXCEPT ![project_id] =
                                    IF archive = "images" \/ @ = "images"
                                    THEN "images" ELSE "empty"]
            /\ response' = [endpoint |-> "upload", code |-> 200, job_id |-> 0,
                            error |-> ""]
    /\ UNCHANGED <<jobs, sup_pc, process, project_file, data_folder, archives,
                   handlerRest>>

\* uuid.uuid4(): an id no job has
generate_job_id == Cardinality(DOMAIN jobs) + 1

\* (mutant) the image files are not counted
start_processing_NoImageCount(project_id, limit) ==
    /\ Cardinality(DOMAIN jobs) < limit
    /\ IF project_id = NoProjectId
       THEN /\ response' = [endpoint |-> "start", code |-> 400, job_id |-> 0,
                            error |-> "Missing project_id"]
            /\ UNCHANGED <<jobs, sup_pc>>
       ELSE IF images_folder[project_id] = "missing"
       THEN /\ response' = [endpoint |-> "start", code |-> 404, job_id |-> 0,
                            error |-> "Images not found for project"]
            /\ UNCHANGED <<jobs, sup_pc>>
       ELSE LET job_id == generate_job_id IN
            /\ jobs' = (job_id :> [job_id |-> job_id,
                                   project_id |-> project_id,
                                   status |-> "queued",
                                   progress |-> 0,
                                   message |-> "Job queued",
                                   result_path |-> NoPath]) @@ jobs
            /\ sup_pc' = [sup_pc EXCEPT ![job_id] = "start"]
            /\ response' = [endpoint |-> "start", code |-> 200, job_id |-> job_id,
                            error |-> ""]
    /\ UNCHANGED <<process, images_folder, batch_zip, project_file,
                   data_folder, archives, handlerRest>>

\* (mutant) the job is filed under an id derived from its project, so a
\* second job of a project takes the place of the first
start_processing_IdByProject(project_id, limit) ==
    /\ Cardinality(DOMAIN jobs) < limit
    /\ IF project_id = NoProjectId
       THEN /\ response' = [endpoint |-> "start", code |-> 400, job_id |-> 0,
                            error |-> "Missing project_id"]
            /\ UNCHANGED <<jobs, sup_pc>>
       ELSE IF images_folder[project_id] = "missing"
       THEN /\ response' = [endpoint |-> "start", code |-> 404, job_id |-> 0,
                            error |-> "Images not found for project"]
            /\ UNCHANGED <<jobs, sup_pc>>
       ELSE IF images_folder[project_id] = "empty"
       THEN /\ response' = [endpoint |-> "start", code |-> 400, job_id |-> 0,
                            error |-> "No valid images found"]
            /\ UNCHANGED <<jobs, sup_pc>>
       ELSE LET same == {b \in DOMAIN jobs : jobs[b].project_id = project_id}
                job_id == IF same = {} THEN generate_job_id
                          ELSE CHOOSE b \in same : \A c \in same : b <= c
            IN
            /\ jobs' = (job_id :> [job_id |-> job_id,
                                   project_id |-> project_id,
                                   status |-> "queued",
                                   progress |-> 0,
                                   message |-> "Job queued",
                                   result_path |-> NoPath]) @@ jobs
            /\ sup_pc' = [sup_pc EXCEPT ![job_id] = "start"]
            /\ response' = [endpoint |-> "start", code |-> 200, job_id |-> job_id,
                            error |-> ""]
    /\ UNCHANGED <<process, images_folder, batch_zip, project_file,
                   data_folder, archives, handlerRest>>

\* POST /api/process/start.  Up to limit jobs are accepted.
start_processing(project_id, limit) ==
    /\ Cardinality(DOMAIN jobs) < limit
    /\ IF project_id = NoProjectId
       THEN /\ response' = [endpoint |-> "start", code |-> 400, job_id |-> 0,
                            error |-> "Missing project_id"]
            /\ UNCHANGED <<jobs, sup_pc>>
       ELSE IF images_folder[project_id] = "missing"
       THEN /\ response' = [endpoint |-> "start", code |-> 404, job_id |-> 0,
                            error |-> "Images not found for project"]
            /\ UNCHANGED <<jobs, sup_pc>>
       ELSE IF images_folder[project_id] = "empty"
       THEN /\ response' = [endpoint |-> "start", code |-> 400, job_id |-> 0,
                            error |-> "No valid images found"]
            /\ UNCHANGED <<jobs, sup_pc>>
       ELSE LET job_id == generate_job_id IN
            /\ jobs' = (job_id :> [job_id |-> job_id,
                                   project_id |-> project_id,
                                   status |-> "queued",
                                   progress |-> 0,
                                   message |-> "Job queued",
                                   result_path |-> NoPath]) @@ jobs
            /\ sup_pc' = [sup_pc EXCEPT ![job_id] = "start"]
            /\ response' = [endpoint |-> "start", code |-> 200, job_id |-> job_id,
                            error |-> ""]
    /\ UNCHANGED <<process, images_folder, batch_zip, project_file,
                   data_folder, archives, handlerRest>>

\* (mutant) the update is written to every job of the same project
update_job_status_ByProject(table, job_id, status, progress, message) ==
    IF job_id \in DOMAIN table
    THEN [b \in DOMAIN table |->
            IF table[b].project_id = table[job_id].project_id
            THEN [table[b] EXCEPT !.status = status,
                                  !.progress = progress,
                                  !.message = message]
            ELSE table[b]]
    ELSE table

\* with jobs_lock: if job_id in jobs: status, progress, message are set
update_job_status(table, job_id, status, progress, message) ==
    IF job_id \in DOMAIN table
    THEN [table EXCEPT ![job_id].status = status,
                       ![job_id].progress = progress,
                       ![job_id].message = message]
    ELSE table

supervisorRest == <<images_folder, batch_zip, response, handlerRest>>

\* update_job_status(job_id, 'processing', 10, ...)
SupPrepare(j) ==
    /\ sup_pc[j] = "start"
    /\ jobs' = update_job_status(jobs, j, "processing", 10, "Preparing RealityScan...")
    /\ sup_pc' = [sup_pc EXCEPT ![j] = "command"]
    /\ UNCHANGED <<process, project_file, data_folder, archives, supervisorRest>>

\* the command line is built; update_job_status(job_id, 'processing', 20, ...)
SupCommand(j) ==
    /\ sup_pc[j] = "command"
    /\ jobs' = update_job_status(jobs, j, "processing", 20, "Running feature detection...")
    /\ sup_pc' = [sup_pc EXCEPT ![j] = "popen"]
    /\ UNCHANGED <<process, project_file, data_folder, archives, supervisorRest>>

\* subprocess.Popen(...); update_job_status(job_id, 'processing', 40, ...)
SupPopen(j) ==
    /\ sup_pc[j] = "popen"
    /\ process' = [process EXCEPT ![j] = [state |-> "running", returncode |-> 0, stderr |-> FALSE]]
    /\ jobs' = update_job_status(jobs, j, "processing", 40, "Aligning images...")
    /\ sup_pc' = [sup_pc EXCEPT ![j] = "communicate"]
    /\ UNCHANGED <<project_file, data_folder, archives, supervisorRest>>

\* RealityScan exits with a return code, having written (or not) the
\* project file and its data folder
ProcessExit(j, returncode, stderr, file, folder) ==
    /\ process[j].state = "running"
    /\ process' = [process EXCEPT ![j] = [state |-> "exited",
                                          returncode |-> returncode,
                                          stderr |-> stderr]]
    /\ project_file' = [project_file EXCEPT ![jobs[j].project_id] = file]
    /\ data_folder' = [data_folder EXCEPT ![jobs[j].project_id] = folder]
    /\ UNCHANGED <<jobs, sup_pc, archives, supervisorRest>>

\* f"RealityScan failed with return code {process.returncode}", and
\* " - Check logs for details" if there is output on stderr
FailedMessage(returncode, stderr) ==
    CASE returncode = 1 /\ stderr ->
            "RealityScan failed with return code 1 - Check logs for details"
      [] returncode = 1 /\ ~stderr ->
            "RealityScan failed with return code 1"

\* (mutant) no return after the job is marked failed
SupCommunicate_NoReturn(j) ==
    /\ sup_pc[j] = "communicate"
    /\ process[j].state = "exited"
    /\ IF process[j].returncode # 0
       THEN jobs' = update_job_status(jobs, j, "failed", 0,
                        FailedMessage(process[j].returncode, process[j].stderr))
       ELSE UNCHANGED jobs
    /\ sup_pc' = [sup_pc EXCEPT ![j] = "check_project"]
    /\ UNCHANGED <<process, project_file, data_folder, archives, supervisorRest>>

\* process.communicate(timeout=3600) returns; if process.returncode != 0:
\* update_job_status(job_id, 'failed', 0, error_msg); return
SupCommunicate(j) ==
    /\ sup_pc[j] = "communicate"
    /\ process[j].state = "exited"
    /\ IF process[j].returncode # 0
       THEN /\ jobs' = update_job_status(jobs, j, "failed", 0,
                                         FailedMessage(process[j].returncode,
                                                       process[j].stderr))
            /\ sup_pc' = [sup_pc EXCEPT ![j] = "done"]
       ELSE /\ sup_pc' = [sup_pc EXCEPT ![j] = "check_project"]
            /\ UNCHANGED jobs
    /\ UNCHANGED <<process, project_file, data_folder, archives, supervisorRest>>

\* (mutant) communicate() is called without a timeout: while the subprocess
\* runs the supervisor waits
SupTimeout_WaitForever(j) ==
    /\ sup_pc[j] = "communicate"
    /\ process[j].state = "running"
    /\ UNCHANGED vars

\* (mutant) the subprocess is left running
SupTimeout_NoKill(j) ==
    /\ sup_pc[j] = "communicate"
    /\ process[j].state = "running"
    /\ jobs' = update_job_status(jobs, j, "failed", 0, "Processing timeout (1 hour)")
    /\ sup_pc' = [sup_pc EXCEPT ![j] = "done"]
    /\ UNCHANGED <<process, project_file, data_folder, archives, supervisorRest>>

\* except subprocess.TimeoutExpired: process.kill();
\* update_job_status(job_id, 'failed', 0, 'Processing timeout (1 hour)'); return
SupTimeout(j) ==
    /\ sup_pc[j] = "communicate"
    /\ process[j].state = "running"
    /\ process' = [process EXCEPT ![j].state = "killed"]
    /\ jobs' = update_job_status(jobs, j, "failed", 0, "Processing timeout (1 hour)")
    /\ sup_pc' = [sup_pc EXCEPT ![j] = "done"]
    /\ UNCHANGED <<project_file, data_folder, archives, supervisorRest>>

\* (mutant) the data folder is not looked for before the SfM files
SupCheckProject_SkipData(j) ==
    /\ sup_pc[j] = "check_project"
    /\ IF project_file[jobs[j].project_id] = "missing"
       THEN /\ jobs' = update_job_status(jobs, j, "failed", 0,
                                         "RealityScan did not create project file")
            /\ sup_pc' = [sup_pc EXCEPT ![j] = "done"]
       ELSE /\ sup_pc' = [sup_pc EXCEPT ![j] = "check_sfm"]
            /\ UNCHANGED jobs
    /\ UNCHANGED <<process, project_file, data_folder, archives, supervisorRest>>

\* if not os.path.exists(project_file): failed; return.  The size of the
\* file is logged.
SupCheckProject(j) ==
    /\ sup_pc[j] = "check_project"
    /\ IF project_file[jobs[j].project_id] = "missing"
       THEN /\ jobs' = update_job_status(jobs, j, "failed", 0,
                                         "RealityScan did not create project file")
            /\ sup_pc' = [sup_pc EXCEPT ![j] = "done"]
       ELSE /\ sup_pc' = [sup_pc EXCEPT ![j] = "check_data"]
            /\ UNCHANGED jobs
    /\ UNCHANGED <<process, project_file, data_folder, archives, supervisorRest>>

\* if not os.path.exists(project_data_folder): failed; return
SupCheckData(j) ==
    /\ sup_pc[j] = "check_data"
    /\ IF data_folder[jobs[j].project_id] = "missing"
       THEN /\ jobs' = update_job_status(jobs, j, "failed", 0,
                                         "Alignment failed - no point cloud generated")
            /\ sup_pc' = [sup_pc EXCEPT ![j] = "done"]
       ELSE /\ sup_pc' = [sup_pc EXCEPT ![j] = "check_sfm"]
            /\ UNCHANGED jobs
    /\ UNCHANGED <<process, project_file, data_folder, archives, supervisorRest>>

\* (mutant) the packaging stage reports less progress than the alignment
SupCheckSfm_Progress30(j) ==
    /\ sup_pc[j] = "check_sfm"
    /\ IF data_folder[jobs[j].project_id] # "sfm"
       THEN /\ jobs' = update_job_status(jobs, j, "failed", 0,
                                         "Alignment failed - insufficient feature matches")
            /\ sup_pc' = [sup_pc EXCEPT ![j] = "done"]
       ELSE /\ jobs' = update_job_status(jobs, j, "processing", 30,
                                         "Creating output package...")
            /\ sup_pc' = [sup_pc EXCEPT ![j] = "package"]
    /\ UNCHANGED <<process, project_file, data_folder, archives, supervisorRest>>

\* if len(sfm_files) == 0: failed; return.  Otherwise
\* update_job_status(job_id, 'processing', 80, ...)
SupCheckSfm(j) ==
    /\ sup_pc[j] = "check_sfm"
    /\ IF data_folder[jobs[j].project_id] # "sfm"
       THEN /\ jobs' = update_job_status(jobs, j, "failed", 0,
                                         "Alignment failed - insufficient feature matches")
            /\ sup_pc' = [sup_pc EXCEPT ![j] = "done"]
       ELSE /\ jobs' = update_job_status(jobs, j, "processing", 80,
                                         "Creating output package...")
            /\ sup_pc' = [sup_pc EXCEPT ![j] = "package"]
    /\ UNCHANGED <<process, project_file, data_folder, archives, supervisorRest>>

\* os.path.join(result_dir, f"{project_id}_result.zip"): one path for each
\* project
ResultPath(project_id) == <<"RESULTS_DIR", project_id, "_result.zip">>

\* package_results writes RESULTS_DIR/<project_id>/<project_id>_result.zip
\* and returns its path, or meets an exception and returns None
package_results(j, written) ==
    IF written
    THEN [archives EXCEPT ![jobs[j].project_id] =
              [state |-> "written", job_id |-> j, project_id |-> jobs[j].project_id]]
    ELSE [archives EXCEPT ![jobs[j].project_id] =
              IF @.state = "none" THEN @
              ELSE [state |-> "broken", job_id |-> j, project_id |-> jobs[j].project_id]]

\* result_zip = package_results(...); if result_zip: completed, 100;
\* else: failed, 80
SupPackage(j, written) ==
    /\ sup_pc[j] = "package"
    /\ archives' = package_results(j, written)
    /\ IF written
       THEN /\ jobs' = update_job_status(jobs, j, "completed", 100,
                           "Processing complete - 3D mesh ready for download")
            /\ sup_pc' = [sup_pc EXCEPT ![j] = "record"]
       ELSE /\ jobs' = update_job_status(jobs, j, "failed", 80,
                                         "Failed to package results")
            /\ sup_pc' = [sup_pc EXCEPT ![j] = "done"]
    /\ UNCHANGED <<process, project_file, data_folder, supervisorRest>>

\* with jobs_lock: jobs[job_id]['result_path'] = result_zip
SupRecord(j) ==
    /\ sup_pc[j] = "record"
    /\ jobs' = [jobs EXCEPT ![j].result_path = ResultPath(jobs[j].project_id)]
    /\ sup_pc' = [sup_pc EXCEPT ![j] = "done"]
    /\ UNCHANGED <<process, project_file, data_folder, archives, supervisorRest>>

\* where the body of the try can raise: Popen (no executable), communicate,
\* os.path.getsize and Path.glob (the file system)
RaisingPcs == {"popen", "communicate", "check_project", "check_data", "check_sfm"}

\* except Exception as e: update_job_status(job_id, 'error', 0, str(e))
SupRaise(j, text) ==
    /\ sup_pc[j] \in RaisingPcs
    /\ jobs' = update_job_status(jobs, j, "error", 0, text)
    /\ sup_pc' = [sup_pc EXCEPT ![j] = "done"]
    /\ UNCHANGED <<process, project_file, data_folder, archives, supervisorRest>>

run_realityscan(j) ==
    \/ SupPrepare(j)
    \/ SupCommand(j)
    \/ SupPopen(j)
    \/ SupCommunicate(j)
    \/ SupTimeout(j)
    \/ SupCheckProject(j)
    \/ SupCheckData(j)
    \/ SupCheckSfm(j)
    \/ \E written \in BOOLEAN : SupPackage(j, written)
    \/ SupRecord(j)
    \/ \E text \in ExceptionTexts : SupRaise(j, text)

\* The server once every project has had a batch of images uploaded and
\* extracted.
InitJobs ==
    /\ InitController
    /\ jobs = <<>>
    /\ sup_pc = [j \in JobIds |-> "none"]
    /\ process = [j \in JobIds |-> [state |-> "none", returncode |-> 0, stderr |-> FALSE]]
    /\ images_folder = [p \in Projects |-> "images"]
    /\ batch_zip = [p \in Projects |-> FALSE]
    /\ project_file = [p \in Projects |-> "missing"]
    /\ data_folder = [p \in Projects |-> "missing"]
    /\ archives = [p \in Projects |-> NoArchive]
    /\ response = [endpoint |-> "upload", code |-> 200, job_id |-> 0, error |-> ""]
    /\ reader = NoReader

\* Clients start jobs, the supervisors run and the subprocesses exit.
NextJobs ==
    \/ \E project_id \in Projects \cup {NoProjectId} :
          start_processing(project_id, MaxJobs)
    \/ \E j \in JobIds : run_realityscan(j)
    \/ \E j \in JobIds, returncode \in ReturnCodes, stderr \in BOOLEAN,
          file \in ProjectFiles, folder \in DataFolders :
             ProcessExit(j, returncode, stderr, file, folder)

SpecJobs == InitJobs /\ [][NextJobs]_vars

\* the statements of run_realityscan when nothing raises; communicate comes
\* back when the subprocess has exited or after its timeout
SupervisorStep(j) ==
    \/ SupPrepare(j)
    \/ SupCommand(j)
    \/ SupPopen(j)
    \/ SupCommunicate(j)
    \/ SupTimeout(j)
    \/ SupCheckProject(j)
    \/ SupCheckData(j)
    \/ SupCheckSfm(j)
    \/ \E written \in BOOLEAN : SupPackage(j, written)
    \/ SupRecord(j)

\* The thread of every job is scheduled.  Nothing is assumed of RealityScan
\* (it may never exit) nor of the clients, and no exception is bound to be
\* raised.
\* the number of jobs accepted in the specification with fairness
MaxLiveJobs == 1

NextJobsLive ==
    \/ \E project_id \in Projects \cup {NoProjectId} :
          start_processing(project_id, MaxLiveJobs)
    \/ \E j \in JobIds : run_realityscan(j)
    \/ \E j \in JobIds, returncode \in ReturnCodes, stderr \in BOOLEAN,
          file \in ProjectFiles, folder \in DataFolders :
             ProcessExit(j, returncode, stderr, file, folder)

SpecJobsFair ==
    /\ InitJobs
    /\ [][NextJobsLive]_vars
    /\ \A j \in JobIds : WF_vars(SupervisorStep(j))

\* ------------------------------------------------------ download_result

\* the project whose archive a result path names
ProjectOf(result_path) == result_path[2]

\* (mutant) the status of the job is not looked at
download_result_NoStatus(job_id, raises) ==
    /\ response' =
          IF job_id \notin DOMAIN jobs
          THEN [endpoint |-> "download", code |-> 404, job_id |-> job_id,
                error |-> "Job not found"]
          ELSE IF \/ jobs[job_id].result_path = NoPath
                  \/ archives[ProjectOf(jobs[job_id].result_path)].state = "none"
          THEN [endpoint |-> "download", code |-> 404, job_id |-> job_id,
                error |-> "Result file not found"]
          ELSE IF raises
          THEN [endpoint |-> "download", code |-> 500, job_id |-> job_id,
                error |-> "OSError"]
          ELSE [endpoint |-> "download", code |-> 200, job_id |-> job_id,
                error |-> "",
                archive |-> archives[ProjectOf(jobs[job_id].result_path)]]
    /\ UNCHANGED <<jobs, sup_pc, process, images_folder, batch_zip,
                   project_file, data_folder, archives, handlerRest>>

\* GET /api/process/download/<job_id>.  send_file answers with what is at
\* result_path at that moment, or raises.
download_result(job_id, raises) ==
    /\ response' =
          IF job_id \notin DOMAIN jobs
          THEN [endpoint |-> "download", code |-> 404, job_id |-> job_id,
                error |-> "Job not found"]
          ELSE IF jobs[job_id].status # "completed"
          THEN [endpoint |-> "download", code |-> 400, job_id |-> job_id,
                error |-> "Job not completed yet"]
          ELSE IF \/ jobs[job_id].result_path = NoPath
                  \/ archives[ProjectOf(jobs[job_id].result_path)].state = "none"
          THEN [endpoint |-> "download", code |-> 404, job_id |-> job_id,
                error |-> "Result file not found"]
          ELSE IF raises
          THEN [endpoint |-> "download", code |-> 500, job_id |-> job_id,
                error |-> "OSError"]
          ELSE [endpoint |-> "download", code |-> 200, job_id |-> job_id,
                error |-> "",
                archive |-> archives[ProjectOf(jobs[job_id].result_path)]]
    /\ UNCHANGED <<jobs, sup_pc, process, images_folder, batch_zip,
                   project_file, data_folder, archives, handlerRest>>

\* the archive of a project is removed from RESULTS_DIR
ArchiveRemoved(project_id) ==
    /\ archives[project_id].state # "none"
    /\ archives' = [archives EXCEPT ![project_id] = NoArchive]
    /\ UNCHANGED <<jobs, sup_pc, process, images_folder, batch_zip,
                   project_file, data_folder, response, handlerRest>>

\* what RealityScan leaves when it aligns the images, and when it does not
Aligned == {<<0, FALSE, "written", "sfm">>, <<0, FALSE, "written", "no_sfm">>}

\* Jobs as above with RealityScan exiting 0, and clients that download.
NextDownload ==
    \/ \E project_id \in Projects : start_processing(project_id, MaxJobs)
    \/ \E j \in JobIds : run_realityscan(j)
    \/ \E j \in JobIds, o \in Aligned : ProcessExit(j, o[1], o[2], o[3], o[4])
    \/ \E job_id \in JobIds, raises \in BOOLEAN : download_result(job_id, raises)
    \/ \E project_id \in Projects : ArchiveRemoved(project_id)

SpecDownload == InitJobs /\ [][NextDownload]_vars

\* ------------------------------------------------------------ get_status

\* GET /api/process/status/<job_id>: get_job_status returns the job record
\* itself, or None
get_status(job_id) ==
    /\ reader.pc = "idle"
    /\ IF job_id \notin DOMAIN jobs
       THEN /\ response' = [endpoint |-> "status", code |-> 404, job_id |-> job_id,
                            error |-> "Job not found"]
            /\ UNCHANGED reader
       ELSE /\ reader' = [NoReader EXCEPT !.pc = "status", !.job_id = job_id]
            /\ UNCHANGED response
    /\ UNCHANGED <<jobs, sup_pc, process, images_folder, batch_zip,
                   project_file, data_folder, archives, controllerVars>>

\* {k: v for k, v in job_info.items() if k != 'result_path'}, outside
\* jobs_lock: 'status' is copied
StatusCopyStatus ==
    /\ reader.pc = "status"
    /\ reader' = [reader EXCEPT !.pc = "progress",
                                !.status = jobs[reader.job_id].status]
    /\ UNCHANGED <<jobs, sup_pc, process, images_folder, batch_zip,
                   project_file, data_folder, archives, response, controllerVars>>

\* 'progress' is copied
StatusCopyProgress ==
    /\ reader.pc = "progress"
    /\ reader' = [reader EXCEPT !.pc = "message",
                                !.progress = jobs[reader.job_id].progress]
    /\ UNCHANGED <<jobs, sup_pc, process, images_folder, batch_zip,
                   project_file, data_folder, archives, response, controllerVars>>

\* 'message' is copied; return jsonify(response)
StatusRespond ==
    /\ reader.pc = "message"
    /\ response' = [endpoint |-> "status", code |-> 200,
                    job_id |-> reader.job_id, error |-> "",
                    status |-> reader.status,
                    progress |-> reader.progress,
                    message |-> jobs[reader.job_id].message]
    /\ reader' = NoReader
    /\ UNCHANGED <<jobs, sup_pc, process, images_folder, batch_zip,
                   project_file, data_folder, archives, controllerVars>>

\* Jobs with RealityScan exiting 0, and a client that polls.
NextStatus ==
    \/ \E project_id \in Projects : start_processing(project_id, MaxJobs)
    \/ \E j \in JobIds : run_realityscan(j)
    \/ \E j \in JobIds, o \in Aligned : ProcessExit(j, o[1], o[2], o[3], o[4])
    \/ \E job_id \in JobIds : get_status(job_id)
    \/ StatusCopyStatus
    \/ StatusCopyProgress
    \/ StatusRespond

SpecStatus == InitJobs /\ [][NextStatus]_vars

\* ------------------------------------------------------------- list_jobs

\* GET /api/process/jobs: with jobs_lock: jobs_list = list(jobs.values());
\* the answer holds every job record as it is in the table
list_jobs ==
    /\ reader.pc = "idle"
    /\ response' = [endpoint |-> "jobs", code |-> 200, job_id |-> 0, error |-> "",
                    total |-> Cardinality(DOMAIN jobs),
                    jobs |-> jobs]
    /\ UNCHANGED <<jobs, sup_pc, process, images_folder, batch_zip,
                   project_file, data_folder, archives, reader, controllerVars>>

\* One job and a client that polls its status and lists the jobs.
NextListing ==
    \/ NextJobsLive
    \/ \E job_id \in JobIds : get_status(job_id)
    \/ StatusCopyStatus
    \/ StatusCopyProgress
    \/ StatusRespond
    \/ list_jobs

SpecListing == InitJobs /\ [][NextListing]_vars

\* ------------------------------------------------- the request handlers

\* Uploads and start requests against a new server, and the supervisor of
\* each job up to the start of RealityScan.
NextRequests ==
    \/ \E project_id \in Projects \cup {NoProjectId}, archive \in Archives :
          UploadImages(project_id, archive)
    \/ \E project_id \in Projects \cup {NoProjectId} :
          start_processing(project_id, MaxJobs)
    \/ \E j \in JobIds : SupPrepare(j) \/ SupCommand(j) \/ SupPopen(j)

SpecRequests == Init /\ [][NextRequests]_vars

\* ------------------------------------------------------------ reference

RECURSIVE Flatten(_)
\* the concatenation of a sequence of text lists
Flatten(lists) ==
    IF lists = <<>> THEN <<>> ELSE Head(lists) \o Flatten(Tail(lists))

\* texts[i] completes a run of n consecutive valid texts
RunEndsAt(texts, i, n) ==
    /\ i >= n
    /\ i <= Len(texts)
    /\ \A j \in (i - n + 1)..i : IsValidQR(texts[j])

HasRun(texts, n) == \E i \in 1..Len(texts) : RunEndsAt(texts, i, n)

\* the texts of the frames captured so far, in capture order: what a single
\* worker hands to the gate
CapturedTexts == Flatten([i \in 1..Len(captured) |-> captured[i].texts])

NoneRaises == \A i \in 1..Len(captured) : ~captured[i].raises

\* every captured frame went through detection and the gate, which waits
Drained ==
    /\ capture_pc = "read"
    /\ frame_queue = <<>>
    /\ \A w \in Workers : detect_pc[w] = "get"
    /\ Len(results_put) = Len(captured)
    /\ result_queue = <<>>
    /\ main_pc = "get"

\* ----------------------------------------------------------------- C1

\* C1 (as claimed): the action sequence is started at most once in the
\* lifetime of the process, whether its steps return or raise, and
\* detection_complete never returns to false.
C1_ActionSequenceAtMostOnce ==
    /\ servo_calls <= 1
    /\ (servo_calls > 0 => detection_complete)

\* ----------------------------------------------------------------- C2

\* the texts of the results the main loop has taken from result_queue
ConsumedTexts ==
    Flatten([k \in 1..(Len(results_put) - Len(result_queue)) |->
                results_put[k].decoded_objects])

IsPrefix(s, t) == Len(s) <= Len(t) /\ s = SubSeq(t, 1, Len(s))

\* C2: the gate has fired exactly when the texts it evaluated contain
\* QR_CONFIRM_FRAMES consecutive texts whose trimmed value is VALID_QR_TEXT
\* (so it fires at the text completing the first such run); the evaluated
\* texts are the texts of the consumed results in order, empty results
\* contributing nothing, and until the gate fires none is skipped (the
\* texts behind the firing one in the same result are).
C2_FiresIffRun ==
    /\ detection_complete <=> HasRun(evaluated, QR_CONFIRM_FRAMES)
    /\ main_pc = "servo" /\ servo_calls = 0 =>
          /\ RunEndsAt(evaluated, Len(evaluated), QR_CONFIRM_FRAMES)
          /\ ~HasRun(SubSeq(evaluated, 1, Len(evaluated) - 1), QR_CONFIRM_FRAMES)
    /\ servo_calls = 0 => IsPrefix(evaluated, ConsumedTexts)
    /\ (~detection_complete /\ main_pc \in {"get", "post"}) => evaluated = ConsumedTexts

\* the gate fired at the third text, after a wrong text and a padded one
C2_Witness ==
    /\ main_pc = "servo"
    /\ servo_calls = 0
    /\ Len(evaluated) = 3
    /\ evaluated[1] = WrongText
    /\ evaluated[2] = PaddedText

\* ----------------------------------------------------------------- C3

\* the main loop has just evaluated one more text
EvaluatesText == Len(evaluated') = Len(evaluated) + 1

\* C3: evaluating a text whose trimmed value differs from VALID_QR_TEXT
\* sets qr_count to 0 and evaluating a matching one adds exactly 1; with
\* target 2, SCANNED, SCANNED fires after the second text and not before,
\* and SCANNED, WRONG, SCANNED does not fire.
C3_ResetOnMismatch ==
    /\ [][EvaluatesText =>
            LET data == evaluated'[Len(evaluated')]
            IN  qr_count' = IF Strip(data) = VALID_QR_TEXT THEN qr_count + 1 ELSE 0]_vars
    /\ [](QR_CONFIRM_FRAMES = 2 =>
            /\ evaluated = <<VALID_QR_TEXT>> => ~detection_complete
            /\ evaluated = <<VALID_QR_TEXT, VALID_QR_TEXT>> => detection_complete
            /\ evaluated = <<VALID_QR_TEXT, WrongText, VALID_QR_TEXT>> =>
                  ~detection_complete /\ qr_count = 1)

\* SCANNED, WRONG, SCANNED evaluated from three separate results
C3_Witness ==
    /\ evaluated = <<VALID_QR_TEXT, WrongText, VALID_QR_TEXT>>
    /\ Len(results_put) = 3
    /\ result_queue = <<>>
    /\ main_pc = "get"

\* ----------------------------------------------------------------- C4

\* the main loop takes a result without texts from result_queue
TakesEmptyResult ==
    /\ result_queue # <<>>
    /\ Head(result_queue).decoded_objects = <<>>
    /\ result_queue' = Tail(result_queue)

\* the main loop finishes the iteration of a result without texts
FinishesEmptyResult ==
    /\ main_pc = "post"
    /\ decoded_objects = <<>>
    /\ main_pc' # main_pc
    /\ ~KeyboardInterrupt

\* C4: from taking a result whose decoded list is empty to the end of its
\* loop iteration, qr_count, detection_complete and should_stop keep their
\* values.
C4_EmptyResultIsNeutral ==
    [][(TakesEmptyResult \/ FinishesEmptyResult) =>
          UNCHANGED <<qr_count, detection_complete, should_stop>>]_vars

\* a result without texts has been handled in the middle of a streak
C4_Witness ==
    /\ qr_count = 1
    /\ decoded_objects = <<>>
    /\ main_pc = "get"
    /\ Len(results_put) - Len(result_queue) = 2
    /\ evaluated = <<VALID_QR_TEXT>>

\* ----------------------------------------------------------------- C5

\* C5 (as claimed): for pictures that all decode and are all delivered,
\* the gate fires exactly when it would with a single worker, which hands
\* over the results in capture order.
C5_OutcomeIndependentOfWorkers ==
    NoneRaises =>
        /\ detection_complete => HasRun(CapturedTexts, QR_CONFIRM_FRAMES)
        /\ (Drained /\ HasRun(CapturedTexts, QR_CONFIRM_FRAMES)) => detection_complete

\* ----------------------------------------------------------------- C6

\* C6: an enqueue attempt of capture_frames changes the one queue it is
\* for, by appending the frame when that queue has a free slot and not at
\* all when it is full; the attempt on windows_queue follows the attempt on
\* frame_queue whatever its outcome.
C6_QueueLocalDrop ==
    [][/\ (capture_pc = "put_frame" /\ capture_pc' # "put_frame") =>
            /\ capture_pc' = "put_windows"
            /\ windows_queue' = windows_queue
            /\ frame_queue' = IF Len(frame_queue) < FRAME_QUEUE_SIZE
                              THEN Append(frame_queue, frame) ELSE frame_queue
       /\ (capture_pc = "put_windows" /\ capture_pc' # "put_windows") =>
            /\ frame_queue' = frame_queue
            /\ windows_queue' = IF Len(windows_queue) < WINDOWS_QUEUE_SIZE
                                THEN Append(windows_queue, frame) ELSE windows_queue]_vars

\* a frame that found frame_queue full (no worker has taken a frame yet)
\* sits on windows_queue
C6_Witness ==
    /\ taken = {}
    /\ capture_pc = "read"
    /\ Len(frame_queue) = FRAME_QUEUE_SIZE
    /\ \E i \in 1..Len(windows_queue) :
          /\ windows_queue[i].id = frame_id
          /\ \A j \in 1..Len(frame_queue) : frame_queue[j].id # frame_id

\* ----------------------------------------------------------------- C7

\* C7: an enqueue attempt of the capture loop always comes to an end and
\* the loop returns to its head, whatever the consumers do or fail to do.
C7_PublishNeverBlocks ==
    (capture_pc \in {"put_frame", "put_windows"}) ~> (capture_pc = "read")

\* the capture loop is back at its head after both queues were full and
\* no consumer has ever taken a frame
C7_Witness ==
    /\ capture_pc = "read"
    /\ frame_id > FRAME_QUEUE_SIZE
    /\ taken = {}
    /\ uplink_pc = "get"
    /\ frames_sent_to_windows + windows_send_errors = 0
    /\ Len(frame_queue) = FRAME_QUEUE_SIZE
    /\ Len(windows_queue) = WINDOWS_QUEUE_SIZE

\* ----------------------------------------------------------------- C8

\* C8 (as claimed): no /video_feed generator is suspended while it holds
\* frame_lock, so the capture loop never waits for a lock held by a client
\* that has stopped reading.
C8_PreviewNeverHoldsLockSuspended ==
    \A c \in Clients : preview_pc[c] = "yield" => frame_lock = "free"

\* ----------------------------------------------------------------- C9

ResultsFor(id) == {i \in 1..Len(results_put) : results_put[i].frame_id = id}

\* C9 (as claimed): every frame a worker took and has finished with has
\* exactly one result on result_queue, and no worker thread has ended while
\* the pipeline runs.
C9_OneResultPerFrame ==
    /\ \A id \in taken :
        (\A w \in Workers : detect_frame[w].id # id) => Cardinality(ResultsFor(id)) = 1
    /\ \A w \in Workers : detect_pc[w] # "dead"

\* ---------------------------------------------------------------- C10

\* C10: a job enters the table as queued; afterwards its status changes
\* only from queued to processing and from processing to completed, failed
\* or error; a job that is completed, failed or error keeps that status.
C10_JobStatusMachine ==
    [][\A j \in JobIds :
          /\ j \in DOMAIN jobs => j \in DOMAIN jobs'
          /\ (j \notin DOMAIN jobs /\ j \in DOMAIN jobs') => jobs'[j].status = "queued"
          /\ (j \in DOMAIN jobs /\ jobs'[j].status # jobs[j].status) =>
                \/ jobs[j].status = "queued" /\ jobs'[j].status = "processing"
                \/ jobs[j].status = "processing" /\ jobs'[j].status \in Terminal]_vars

\* one job has ended failed and stays so while a later job runs to
\* completed and has its artifact path recorded
C10_Witness ==
    /\ DOMAIN jobs = {1, 2}
    /\ jobs[1].status = "failed"
    /\ jobs[2].status = "completed"
    /\ sup_pc[1] = "done"
    /\ sup_pc[2] = "done"
    /\ jobs[2].result_path # NoPath

\* ---------------------------------------------------------------- C11

\* C11: start_processing answers 400 to a request without project_id, 404
\* when the images folder of the project does not exist and 400 when the
\* folder holds no file of an allowed extension; none of the three adds a
\* job or starts a run_realityscan thread.
C11_StartRejects ==
    [][\A project_id \in Projects \cup {NoProjectId} :
          start_processing(project_id, MaxJobs) =>
             LET folder == IF project_id = NoProjectId THEN "missing"
                           ELSE images_folder[project_id]
             IN  /\ project_id = NoProjectId => response'.code = 400
                 /\ (project_id # NoProjectId /\ folder = "missing") =>
                        response'.code = 404
                 /\ (project_id # NoProjectId /\ folder = "empty") =>
                        response'.code = 400
                 /\ (project_id = NoProjectId \/ folder # "images") =>
                        /\ jobs' = jobs
                        /\ sup_pc' = sup_pc]_vars

\* a start request for an uploaded project without images has been
\* refused, after another for a project never uploaded would have been
C11_Witness ==
    /\ response.endpoint = "start"
    /\ response.code = 400
    /\ response.error = "No valid images found"
    /\ \E p \in Projects : images_folder[p] = "empty"
    /\ jobs = <<>>
    /\ \A j \in JobIds : sup_pc[j] = "none"

\* ---------------------------------------------------------------- C12

\* the message of the first check that fails for these files, "" if none
FirstFailing(file, folder) ==
    IF file = "missing" THEN "RealityScan did not create project file"
    ELSE IF folder = "missing" THEN "Alignment failed - no point cloud generated"
    ELSE IF folder = "no_sfm" THEN "Alignment failed - insufficient feature matches"
    ELSE ""

LeavesCheck(j, pc) ==
    /\ j \in DOMAIN jobs
    /\ sup_pc[j] = pc
    /\ sup_pc'[j] # pc
    /\ jobs'[j].status # "error"

EndsFailed(j, message) ==
    /\ jobs'[j].status = "failed"
    /\ jobs'[j].message = message
    /\ sup_pc'[j] = "done"

\* C12: after exit code 0 run_realityscan looks for the project file, then
\* for the data folder, then for sfm*.dat, and the first check that fails
\* ends the job failed with the message of that check; a job that is alone
\* on its project and ended by one of the checks carries the message of
\* the first check its files fail.
C12_PostconditionOrder ==
    /\ [][\A j \in JobIds :
            /\ (LeavesCheck(j, "communicate") /\ process[j].returncode = 0
                    /\ process[j].state = "exited") =>
                   /\ sup_pc'[j] = "check_project"
                   /\ jobs' = jobs
            /\ LeavesCheck(j, "check_project") =>
                   IF project_file[jobs[j].project_id] = "missing"
                   THEN EndsFailed(j, "RealityScan did not create project file")
                   ELSE sup_pc'[j] = "check_data" /\ jobs' = jobs
            /\ LeavesCheck(j, "check_data") =>
                   IF data_folder[jobs[j].project_id] = "missing"
                   THEN EndsFailed(j, "Alignment failed - no point cloud generated")
                   ELSE sup_pc'[j] = "check_sfm" /\ jobs' = jobs
            /\ LeavesCheck(j, "check_sfm") =>
                   IF data_folder[jobs[j].project_id] = "no_sfm"
                   THEN EndsFailed(j, "Alignment failed - insufficient feature matches")
                   ELSE data_folder[jobs[j].project_id] = "sfm" =>
                           sup_pc'[j] = "package"]_vars
    /\ [](\A j \in DOMAIN jobs :
            LET p == jobs[j].project_id
                expected == FirstFailing(project_file[p], data_folder[p])
            IN  (/\ Cardinality(DOMAIN jobs) = 1
                 /\ sup_pc[j] = "done"
                 /\ process[j].state = "exited"
                 /\ process[j].returncode = 0
                 /\ jobs[j].status # "error"
                 /\ expected # "") =>
                    /\ jobs[j].status = "failed"
                    /\ jobs[j].message = expected)

\* RealityScan exited 0 and left a project file without a data folder: the
\* job has ended with the message of the data-folder check
C12_Witness ==
    /\ DOMAIN jobs = {1}
    /\ sup_pc[1] = "done"
    /\ process[1].state = "exited"
    /\ process[1].returncode = 0
    /\ project_file[jobs[1].project_id] = "written"
    /\ data_folder[jobs[1].project_id] = "missing"
    /\ jobs[1].status = "failed"
    /\ jobs[1].message = "Alignment failed - no point cloud generated"

\* ---------------------------------------------------------------- C13

\* C13 (as claimed): a job, alone on its project, whose RealityScan has
\* exited leaving no project file or one of size 0 is not packaged and
\* does not complete.
C13_EmptyProjectFileFails ==
    \A j \in DOMAIN jobs :
        LET p == jobs[j].project_id
        IN  (/\ Cardinality(DOMAIN jobs) = 1
             /\ process[j].state = "exited"
             /\ project_file[p] \in {"missing", "empty"}) =>
                /\ sup_pc[j] \notin {"package", "record"}
                /\ jobs[j].status # "completed"
                /\ archives[p].state = "none"

\* ---------------------------------------------------------------- C14

\* C14: when communicate() times out with RealityScan still running the
\* job goes straight to failed with the timeout message and the subprocess
\* is killed; a job with the timeout message has no running subprocess,
\* its supervisor has ended without checking or packaging anything, and a
\* killed subprocess stays killed.
C14_TimeoutKills ==
    /\ [][\A j \in JobIds :
            /\ (LeavesCheck(j, "communicate") /\ process[j].state = "running") =>
                   /\ EndsFailed(j, "Processing timeout (1 hour)")
                   /\ process'[j].state = "killed"
                   /\ UNCHANGED <<project_file, data_folder, archives>>
            /\ process[j].state = "killed" => process'[j].state = "killed"]_vars
    /\ [](\A j \in DOMAIN jobs :
            jobs[j].message = "Processing timeout (1 hour)" =>
                /\ jobs[j].status = "failed"
                /\ process[j].state = "killed"
                /\ sup_pc[j] = "done"
                /\ archives[jobs[j].project_id].job_id # j)

\* a job has timed out while a later job for the same project has been
\* packaged
C14_Witness ==
    /\ DOMAIN jobs = {1, 2}
    /\ jobs[1].message = "Processing timeout (1 hour)"
    /\ process[1].state = "killed"
    /\ sup_pc[1] = "done"
    /\ jobs[2].status = "completed"
    /\ archives[jobs[1].project_id].state = "written"

\* ---------------------------------------------------------------- C15

\* C15 (as claimed): the metadata of a whole archive that a download of a
\* completed job returns name the job downloaded and the project of that
\* job.
C15_DownloadReturnsOwnArchive ==
    (/\ response.endpoint = "download"
     /\ response.code = 200
     /\ response.archive.state = "written") =>
        /\ response.archive.job_id = response.job_id
        /\ response.archive.project_id = jobs[response.job_id].project_id

\* ---------------------------------------------------------------- C16

\* C16 (as claimed): a job whose status is completed has its artifact path
\* recorded.
C16_CompletedHasResultPath ==
    \A j \in DOMAIN jobs :
        jobs[j].status = "completed" => jobs[j].result_path # NoPath

\* ---------------------------------------------------------------- C17

\* a download request for job_id has just been answered
Downloads(job_id) ==
    /\ response' # response
    /\ response'.endpoint = "download"
    /\ response'.job_id = job_id

\* C17: download_result sends the archive only for a known job that is
\* completed and whose recorded archive is on disk; it answers 404 for an
\* unknown job id, 400 for a job that is queued, processing, failed or
\* error, and 404 for a completed job whose archive is not on disk; it
\* changes no job record.
C17_DownloadOutcomes ==
    [][\A job_id \in JobIds :
          Downloads(job_id) =>
             /\ jobs' = jobs
             /\ archives' = archives
             /\ response'.code = 200 =>
                   /\ job_id \in DOMAIN jobs
                   /\ jobs[job_id].status = "completed"
                   /\ jobs[job_id].result_path # NoPath
                   /\ archives[ProjectOf(jobs[job_id].result_path)].state # "none"
                   /\ response'.archive = archives[ProjectOf(jobs[job_id].result_path)]
             /\ job_id \notin DOMAIN jobs => response'.code = 404
             /\ (job_id \in DOMAIN jobs /\ jobs[job_id].status # "completed") =>
                   response'.code = 400
             /\ (/\ job_id \in DOMAIN jobs
                 /\ jobs[job_id].status = "completed"
                 /\ jobs[job_id].result_path # NoPath
                 /\ archives[ProjectOf(jobs[job_id].result_path)].state = "none") =>
                   response'.code = 404]_vars

\* the archive of a completed job has been removed and a download of the
\* job refused
C17_Witness ==
    /\ response.endpoint = "download"
    /\ response.code = 404
    /\ response.job_id \in DOMAIN jobs
    /\ jobs[response.job_id].status = "completed"
    /\ jobs[response.job_id].result_path # NoPath
    /\ archives[jobs[response.job_id].project_id].state = "none"

\* ---------------------------------------------------------------- C18

\* the (status, progress, message) values start_processing and
\* update_job_status give a job record
RecordValues ==
    {<<"queued", 0, "Job queued">>,
     <<"processing", 10, "Preparing RealityScan...">>,
     <<"processing", 20, "Running feature detection...">>,
     <<"processing", 40, "Aligning images...">>,
     <<"processing", 80, "Creating output package...">>,
     <<"completed", 100, "Processing complete - 3D mesh ready for download">>,
     <<"failed", 0, "Processing timeout (1 hour)">>,
     <<"failed", 0, "RealityScan did not create project file">>,
     <<"failed", 0, "Alignment failed - no point cloud generated">>,
     <<"failed", 0, "Alignment failed - insufficient feature matches">>,
     <<"failed", 80, "Failed to package results">>}
    \cup {<<"failed", 0, FailedMessage(1, stderr)>> : stderr \in BOOLEAN}
    \cup {<<"error", 0, text>> : text \in ExceptionTexts}

\* every job record holds one of these at every instant
RecordsAreWhole ==
    \A j \in DOMAIN jobs :
        <<jobs[j].status, jobs[j].progress, jobs[j].message>> \in RecordValues

\* C18 (as claimed): the status, progress and message of a get_status
\* response are values the job record held together at one instant.
C18_StatusSnapshotConsistent ==
    (response.endpoint = "status" /\ response.code = 200) =>
        <<response.status, response.progress, response.message>> \in RecordValues

\* ---------------------------------------------------------------- C19

\* C19: the progress of every job is between 0 and 100, and from one
\* update to the next, with the status processing before and after, it
\* does not decrease.
C19_ProgressMonotonic ==
    /\ [](\A j \in DOMAIN jobs : jobs[j].progress \in 0..100)
    /\ [][\A j \in DOMAIN jobs :
            (jobs[j].status = "processing" /\ jobs'[j].status = "processing") =>
                jobs'[j].progress >= jobs[j].progress]_vars

\* a job has gone through every progress update of run_realityscan
C19_Witness ==
    /\ 1 \in DOMAIN jobs
    /\ jobs[1].status = "processing"
    /\ jobs[1].progress = 80
    /\ sup_pc[1] = "package"

\* ---------------------------------------------------------------- C20

\* C20 (as claimed): once the gate has fired, should_stop is true only
\* after trigger_servo and send_rtl have been invoked.
C20_ActionBeforeShutdown ==
    (detection_complete /\ should_stop) => (servo_calls > 0 /\ rtl_calls > 0)

\* ---------------------------------------------------------------- C21

\* C21: send_rtl is invoked only from the point trigger_servo returns to,
\* which is reached only through the trigger position, the neutral
\* position and the release of the drive, in that order; each invocation
\* counts once and leaves that point, and the loop leaves that point
\* without invoking send_rtl only on Ctrl+C.
C21_ServoThenRtl ==
    [][/\ rtl_calls' # rtl_calls =>
            /\ main_pc = "rtl"
            /\ main_pc' # "rtl"
            /\ rtl_calls' = rtl_calls + 1
            /\ servo_calls > 0
            /\ servo_duty = 0
       /\ (main_pc' = "rtl" /\ main_pc # "rtl") =>
            /\ main_pc = "servo_release"
            /\ servo_duty = SERVO_NEUTRAL
            /\ servo_duty' = 0
       /\ (main_pc' = "servo_release" /\ main_pc # "servo_release") =>
            /\ main_pc = "servo_neutral"
            /\ servo_duty = SERVO_TRIGGER
            /\ servo_duty' = SERVO_NEUTRAL
       /\ (main_pc' = "servo_neutral" /\ main_pc # "servo_neutral") =>
            /\ main_pc = "servo"
            /\ servo_duty' = SERVO_TRIGGER
       /\ (main_pc = "rtl" /\ main_pc' \notin {"rtl", "cleanup"}) =>
            rtl_calls' = rtl_calls + 1]_vars

\* the servo has gone through its sequence once and RTL has been sent once
C21_Witness ==
    /\ main_pc = "post"
    /\ detection_complete
    /\ servo_calls = 1
    /\ rtl_calls = 1
    /\ servo_duty = 0

\* ---------------------------------------------------------------- C22

\* C22 (as claimed): once the gate has fired the main loop is left and
\* the cleanup runs, whether trigger_servo and send_rtl return or raise.
C22_ShutdownCompletes ==
    detection_complete ~> (main_pc = "done")

\* ------------------------------------------------------------------ C23

\* C23 (as claimed): once should_stop is true it stays true, and afterwards
\* the capture loop reaches the end of capture_frames, whatever the queues
\* still hold.
C23_StopTerminatesCapture ==
    should_stop ~> (capture_pc = "done")

\* should_stop is never reset: no statement assigns False to it after the
\* module initialisation
C23_StopIsMonotone ==
    [][should_stop => should_stop']_vars

\* ------------------------------------------------------------------ C24

\* the outcomes of a post that the loop counts as errors
FailedPosts == {"other_status", "RequestException"}

\* C24: a frame taken from windows_queue is posted at most once.  Every pass
\* of the uplink through its post posts the frame it holds, whose number is
\* above that of every frame posted before; a non-200 answer or a
\* RequestException adds exactly 1 to windows_send_errors and leaves
\* frames_sent_to_windows alone; whatever the outcome the frame is given up
\* (not kept, not put back on windows_queue) and the worker is back at its
\* get; the counters change in no other step.
C24_FailedPostNotRetried ==
    [][ /\ (uplink_pc = "post" /\ uplinkVars' # uplinkVars) =>
            /\ last_post'.id = uplink_frame.id
            /\ last_post'.id > last_post.id
            /\ last_post'.outcome \in FailedPosts =>
                  /\ windows_send_errors' = windows_send_errors + 1
                  /\ frames_sent_to_windows' = frames_sent_to_windows
            /\ uplink_pc' = "get"
            /\ uplink_frame' = NoFrame
            /\ windows_queue' = windows_queue
        /\ (uplink_pc # "post") =>
            /\ windows_send_errors' = windows_send_errors
            /\ frames_sent_to_windows' = frames_sent_to_windows
            /\ last_post' = last_post
        /\ (uplink_pc = "get" /\ uplink_pc' = "post") =>
            /\ windows_queue # <<>>
            /\ uplink_frame' = Head(windows_queue)
            /\ uplink_frame'.id > last_post.id
      ]_vars

\* a post has failed with a network exception, was counted once, and the
\* worker has pulled the next frame
C24_Witness ==
    /\ last_post.outcome = "RequestException"
    /\ windows_send_errors = 1
    /\ frames_sent_to_windows = 0
    /\ uplink_pc = "post"
    /\ uplink_frame.id > last_post.id

\* ------------------------------------------------------------------ C25

C25_HandlerSetsError ==
    [][ \A j \in JobIds : \A text \in ExceptionTexts :
           SupRaise(j, text)
           => /\ jobs'[j].status = "error"
              /\ jobs'[j].progress = 0
              /\ jobs'[j].message = text
      ]_vars

\* ------------------------------------------------------------------ C26

\* every number the controller keeps: frames_processed (the frame_id of the
\* capture loop), qr_count and the two counters of the uplink.  None of them
\* is a drop counter of frame_queue or of windows_queue.
ControllerCounters ==
    <<frame_id, qr_count, frames_sent_to_windows, windows_send_errors>>

\* an enqueue attempt of capture_frames that finds its queue full
FailedEnqueue ==
    \/ capture_pc = "put_frame" /\ capture_pc' # "put_frame"
         /\ Len(frame_queue) = FRAME_QUEUE_SIZE
    \/ capture_pc = "put_windows" /\ capture_pc' # "put_windows"
         /\ Len(windows_queue) = WINDOWS_QUEUE_SIZE

\* C26 (as claimed): an enqueue attempt that fails on a full queue is
\* counted: it adds exactly 1 to one number kept by the controller, and the
\* capture loop goes on.
C26_DropIsCounted ==
    [][ FailedEnqueue =>
          /\ \E i \in 1..Len(ControllerCounters) :
                /\ ControllerCounters'[i] = ControllerCounters[i] + 1
                /\ \A k \in 1..Len(ControllerCounters) \ {i} :
                      ControllerCounters'[k] = ControllerCounters[k]
          /\ capture_pc' \in {"put_windows", "read"}
      ]_vars

\* the part that holds: the failed attempt raises nothing out of the loop,
\* which goes on with its next statement
C26_DropNotPropagated ==
    [][ FailedEnqueue =>
          /\ capture_pc' = IF capture_pc = "put_frame" THEN "put_windows" ELSE "read"
          /\ ControllerCounters' = ControllerCounters
      ]_vars

\* ------------------------------------------------------------------ C27

\* C27 (as claimed): once upload_images has answered, with whatever code,
\* no batch archive is left in the upload directory of any project.
C27_BatchArchiveRemoved ==
    response.endpoint = "upload" => \A p \in Projects : ~batch_zip[p]

\* the part that holds: after an upload answered with 200 the archive is gone
C27_RemovedAfterSuccess ==
    [][ \A p \in Projects :
          (\E archive \in Archives : UploadImages(p, archive)) /\ response'.code = 200
          => ~batch_zip'[p]
      ]_vars

\* ------------------------------------------------------------------ C28

\* C28 (as claimed): once detection_complete is true, qr_count keeps its
\* value and no further text is evaluated.
C28_GateClosedAfterFiring ==
    [][ detection_complete =>
          /\ qr_count' = qr_count
          /\ evaluated' = evaluated
      ]_vars

\* ------------------------------------------------------------------ C29

\* C29: a step of run_realityscan for job a leaves the record of every
\* other job as it is: its status, progress, message and result_path, and
\* the set of jobs in the table.
C29_SupervisorChangesOwnJobOnly ==
    [][ \A a \in JobIds :
          run_realityscan(a) =>
            /\ DOMAIN jobs' = DOMAIN jobs
            /\ \A b \in DOMAIN jobs \ {a} :
                  /\ jobs'[b].status = jobs[b].status
                  /\ jobs'[b].progress = jobs[b].progress
                  /\ jobs'[b].message = jobs[b].message
                  /\ jobs'[b].result_path = jobs[b].result_path
      ]_vars

\* two jobs supervised at the same time: the supervisor of job 2 has
\* finished and recorded its result while job 1 is still waiting for its
\* subprocess
C29_Witness ==
    /\ DOMAIN jobs = {1, 2}
    /\ sup_pc[1] = "communicate"
    /\ jobs[1].status = "processing"
    /\ jobs[1].result_path = NoPath
    /\ sup_pc[2] = "done"
    /\ jobs[2].status = "completed"
    /\ jobs[2].result_path # NoPath

\* ------------------------------------------------------------------ C30

\* the number of results the main loop has taken from result_queue
ResultsTaken == Len(results_put) - Len(result_queue)

\* C30 (as claimed): when the gate has fired, the QR_CONFIRM_FRAMES matches
\* it counted come from at least as many results, so at least
\* QR_CONFIRM_FRAMES results have been taken from result_queue.
C30_FiresOnDistinctResults ==
    detection_complete => ResultsTaken >= QR_CONFIRM_FRAMES

\* ------------------------------------------------------------------ C31

\* C31: the texts of one result are evaluated in the order of the list, one
\* per pass, each becoming last_qr_content; the pass whose text is valid and
\* brings qr_count to QR_CONFIRM_FRAMES leaves the for loop, and the loop is
\* entered again only with the first text of the next result taken from
\* result_queue; outside the for loop qr_count, last_qr_content and the
\* evaluated texts do not change.
C31_StopsAtConfirmingText ==
    [][ /\ (main_pc = "for" /\ main_pc' # "cleanup") =>
            LET data == decoded_objects[for_idx]
            IN  /\ evaluated' = Append(evaluated, data)
                /\ last_qr_content' = data
                /\ decoded_objects' = decoded_objects
                /\ IF IsValidQR(data) /\ qr_count' >= QR_CONFIRM_FRAMES
                   THEN main_pc' = "servo"
                   ELSE IF for_idx < Len(decoded_objects)
                   THEN main_pc' = "for" /\ for_idx' = for_idx + 1
                   ELSE main_pc' = "post"
        /\ (main_pc # "for") =>
            /\ evaluated' = evaluated
            /\ qr_count' = qr_count
            /\ last_qr_content' = last_qr_content
            /\ main_pc' = "for" =>
                  /\ main_pc = "get"
                  /\ result_queue # <<>>
                  /\ result_queue' = Tail(result_queue)
                  /\ decoded_objects' = Head(result_queue).decoded_objects
                  /\ for_idx' = 1
      ]_vars

\* the gate fired on a text that was not the last of its result, the action
\* sequence ran and the loop was left: the texts after it were not
\* evaluated
C31_Witness ==
    /\ main_pc = "cleanup"
    /\ detection_complete
    /\ servo_calls = 1
    /\ rtl_calls = 1
    /\ for_idx <= Len(decoded_objects)
    /\ Len(evaluated) = QR_CONFIRM_FRAMES
    /\ qr_count = QR_CONFIRM_FRAMES

\* ------------------------------------------------------------------ C32

\* the statements of run_realityscan after the return-code check
AfterReturnCode == {"check_project", "check_data", "check_sfm", "package", "record"}

\* C32: when communicate has returned with a return code other than 0 the
\* job is marked failed, with progress 0 and the message that names the
\* return code, and run_realityscan returns: it never reaches the checks of
\* the project file, the data folder and the sfm files, nor package_results,
\* and the step writes no archive.
C32_NonZeroExitFails ==
    /\ [][ \A j \in JobIds :
             (SupCommunicate(j) /\ process[j].returncode # 0) =>
                /\ EndsFailed(j, FailedMessage(process[j].returncode, process[j].stderr))
                /\ jobs'[j].progress = 0
                /\ archives' = archives
         ]_vars
    /\ [](\A j \in JobIds :
             (process[j].state = "exited" /\ process[j].returncode # 0) =>
                sup_pc[j] \notin AfterReturnCode)

\* RealityScan has exited with code 1 and output on stderr, and the job has
\* ended failed with the message naming the code; nothing was packaged
C32_Witness ==
    /\ DOMAIN jobs = {1}
    /\ process[1].state = "exited"
    /\ process[1].returncode = 1
    /\ process[1].stderr
    /\ sup_pc[1] = "done"
    /\ jobs[1].status = "failed"
    /\ jobs[1].message = "RealityScan failed with return code 1 - Check logs for details"
    /\ archives[jobs[1].project_id] = NoArchive

\* ------------------------------------------------------------------ C33

\* C33: a start_processing answered with 200 adds one record to the jobs
\* table, under an id no job had, with status queued, progress 0 and no
\* result_path; every record that was in the table is unchanged; the
\* answer carries the new id and is given while the supervisor of the new
\* job has not taken a step and no subprocess has been started for it.  No
\* other step adds a record to the table or takes one away.
C33_StartAddsOneQueuedJob ==
    [][ /\ ((\E project_id \in Projects : start_processing(project_id, MaxJobs))
              /\ response'.code = 200) =>
            \E id \in DOMAIN jobs' \ DOMAIN jobs :
                /\ DOMAIN jobs' = DOMAIN jobs \cup {id}
                /\ jobs'[id].job_id = id
                /\ jobs'[id].status = "queued"
                /\ jobs'[id].progress = 0
                /\ jobs'[id].result_path = NoPath
                /\ \A b \in DOMAIN jobs : jobs'[b] = jobs[b]
                /\ response'.job_id = id
                /\ sup_pc'[id] = "start"
                /\ process'[id].state = "none"
                /\ \A b \in DOMAIN jobs : sup_pc'[b] = sup_pc[b]
        /\ (DOMAIN jobs' # DOMAIN jobs) =>
            /\ response'.endpoint = "start"
            /\ response'.code = 200
            /\ response'.job_id \in DOMAIN jobs' \ DOMAIN jobs
      ]_vars

\* a second job has just been accepted while the first is being processed:
\* the first record is as its supervisor left it
C33_Witness ==
    /\ DOMAIN jobs = {1, 2}
    /\ response.endpoint = "start"
    /\ response.code = 200
    /\ response.job_id = 2
    /\ jobs[2].status = "queued"
    /\ sup_pc[2] = "start"
    /\ jobs[1].status = "processing"
    /\ jobs[1].progress = 40
    /\ process[1].state = "running"

\* ------------------------------------------------------------------ C34

\* the frame numbers of a queue grow from its head to its tail
StrictlyIncreasing(queue) ==
    \A i \in 1..(Len(queue) - 1) : queue[i].id < queue[i + 1].id

\* the frame is the one that was read when the capture loop counted id
IsCaptured(f) ==
    /\ f.id \in 1..Len(captured)
    /\ f.pic = captured[f.id]

\* C34: the frame numbers held in frame_queue, and those held in
\* windows_queue, grow strictly from head to tail; every queued frame
\* carries the number it was given when it was read, so a number found in
\* both queues stands for one captured frame.
C34_FrameIdsIncrease ==
    /\ StrictlyIncreasing(frame_queue)
    /\ StrictlyIncreasing(windows_queue)
    /\ \A i \in 1..Len(frame_queue) : IsCaptured(frame_queue[i])
    /\ \A k \in 1..Len(windows_queue) : IsCaptured(windows_queue[k])
    /\ \A i \in 1..Len(frame_queue) : \A k \in 1..Len(windows_queue) :
          frame_queue[i].id = windows_queue[k].id => frame_queue[i] = windows_queue[k]

\* both queues hold several frames, among them one frame that is in both,
\* and the pictures read were not all the same
C34_Witness ==
    /\ Len(frame_queue) >= 2
    /\ Len(windows_queue) >= 2
    /\ \E i \in 1..Len(frame_queue) : \E k \in 1..Len(windows_queue) :
          frame_queue[i].id = windows_queue[k].id
    /\ \E a \in 1..Len(captured) : \E b \in 1..Len(captured) :
          captured[a] # captured[b]

\* ------------------------------------------------------------------ C35

\* C35 (as claimed): qr_count stays between 0 and QR_CONFIRM_FRAMES, and it
\* is at QR_CONFIRM_FRAMES only when the gate has fired.
C35_CounterWithinTarget ==
    /\ qr_count \in 0..QR_CONFIRM_FRAMES
    /\ qr_count = QR_CONFIRM_FRAMES => detection_complete

\* the part that holds: the counter is never negative and never at or above
\* the target without the gate having fired
C35_TargetMeansFired ==
    /\ qr_count >= 0
    /\ qr_count >= QR_CONFIRM_FRAMES => detection_complete

\* ------------------------------------------------------------------ C36

\* C36: every job in the table comes to status completed, failed or error
\* with its supervisor at the end of run_realityscan, whether RealityScan
\* exits, runs until the timeout or cannot be started.
C36_JobsReachTerminal ==
    \A j \in JobIds :
        (j \in DOMAIN jobs) ~>
            (j \in DOMAIN jobs /\ jobs[j].status \in Terminal /\ sup_pc[j] = "done")

\* a job has ended although RealityScan never exited: its supervisor ran
\* into the timeout and killed the subprocess
C36_Witness ==
    /\ 1 \in DOMAIN jobs
    /\ sup_pc[1] = "done"
    /\ process[1].state = "killed"
    /\ jobs[1].status = "failed"
    /\ jobs[1].progress = 0

\* ------------------------------------------------------------------ C37

\* C37 (as claimed): every pass of the uplink from its post back to its get
\* adds 1 to exactly one of frames_sent_to_windows and windows_send_errors,
\* so their sum counts the frames taken from windows_queue.
C37_UplinkAccountingExact ==
    [][ (uplink_pc = "post" /\ uplink_pc' = "get") =>
          \/ /\ frames_sent_to_windows' = frames_sent_to_windows + 1
             /\ windows_send_errors' = windows_send_errors
          \/ /\ frames_sent_to_windows' = frames_sent_to_windows
             /\ windows_send_errors' = windows_send_errors + 1
      ]_vars

\* the part that holds: a pass never counts a frame twice, and the counters
\* never decrease
C37_AtMostOneCount ==
    [][ /\ frames_sent_to_windows' >= frames_sent_to_windows
        /\ windows_send_errors' >= windows_send_errors
        /\ frames_sent_to_windows' + windows_send_errors'
              <= frames_sent_to_windows + windows_send_errors + 1
      ]_vars

\* ------------------------------------------------------------------ C38

\* C38 (as claimed): no answer to a status request and no answer to a
\* listing of the jobs holds the result_path of a job.
C38_ResultPathNotDisclosed ==
    /\ response.endpoint = "status" => "result_path" \notin DOMAIN response
    /\ response.endpoint = "jobs" =>
          \A j \in DOMAIN response.jobs : response.jobs[j].result_path = NoPath

\* the part that holds: the answer of get_status has no result_path
C38_StatusHidesResultPath ==
    response.endpoint = "status" => "result_path" \notin DOMAIN response

====
